---- MODULE Spec2Model ----
(***************************************************************************)
(* Model of the sthlmconcerts batch ingestion engine:                      *)
(*   - supabase/functions/scrape-concerts/index.ts (Firecrawl JSON         *)
(*     extraction, 24 chained batches, deletion guard), and                *)
(*   - the earlier AI-extraction variant of the same function              *)
(*     (unnamed/part_002, lines 608-1255).                                 *)
(* Text is modelled as a sequence of one-character tokens; characters      *)
(* outside ASCII carry a name ("a_ring" for the letter a with a ring).     *)
(***************************************************************************)
EXTENDS Integers, Sequences, FiniteSets, TLC

(***************************************************************************)
(* State                                                                   *)
(***************************************************************************)
VARIABLES
  now,              \* Date.now(), in ticks
  START_TIME,       \* index.ts 9: Date.now() when the module was loaded
  artistImageCache, \* index.ts 32: set of <<cacheKey, url or NULL>>
  concerts,         \* table concerts: set of rows
  deleted_concerts, \* table deleted_concerts: set of [artist, venue, date]
  pc,               \* where the request handler is
  targetBatch, targetPage, chain,   \* index.ts 367-369
  deletedKeys,      \* index.ts 393
  deletedAtLoad,    \* history: deleted_concerts when deletedKeys was loaded
  tasks, i, all,    \* scrapeBatch: its task list, loop index and results
  checkedAt,        \* history: elapsed time seen by the last budget check
  stopReason,       \* history: why the scrapeBatch loop ended
  results,          \* index.ts 449
  processedCalls,   \* history: how many times upsertBatch was called
  deduped,           \* index.ts 403: the deduplicated list of upsertBatch
  queue,            \* upsertBatch: records of deduped still to handle
  count, skippedDeleted, totalUpserted,   \* index.ts 400-405
  taskLog,          \* history: the tasks started, with the backend's answer
  upsertLog,        \* history: the upserts issued, with their outcome
  triggerLog,       \* history: the trigger_scrape_batch calls
  response,         \* the HTTP response, once sent
  aiCreditsExhausted,   \* part_002 619
  lovableApiKey,        \* part_002 963: whether LOVABLE_API_KEY is set
  curBatch, lnStart,    \* AI variant: the batch block and Live Nation sub-batch reached
  pgPage, pgAll,        \* scrapePaginated (part_002 818-842): page and its all
  attempt,              \* part_002 705: the retry loop of the extraction call
  allConcerts,          \* part_002 967
  quotaSignalled,       \* history: an extraction call was answered with 402
  callsAfterSignal,     \* history: extraction calls made after the 402
  imageCalls,           \* history: searchArtistImage calls made
  collectedKeys,        \* history: natural keys of the candidates extracted
  dIn,              \* SpecDedup: the list handed to deduplicateConcerts
  dOut,             \* SpecDedup: what it returned
  dVariant,         \* SpecDedup: "none", then the variant that ran
  body,             \* history: the request body the handler received
  invocation,       \* how many requests this process has taken
  world,            \* SpecRerun: what the external services answer
  prev,             \* SpecRerun: history of the invocation before this one
  chainLog,         \* history: the invocations of a chain, oldest first
  qIn, qOut,        \* SpecQuality, SpecNormalize: a pure function's input and results
  mpc,              \* manage-concerts: where its handler is
  mreq,             \* manage-concerts: the request
  toDelete,         \* part_002 267: the rows selected before the delete
  mqueue,           \* part_002 282: rows of toDelete still to record
  mresp,            \* manage-concerts: the HTTP response, once sent
  removed,          \* history: rows the delete action removed
  mBefore           \* history: the tables when the request arrived

processVars == <<now, START_TIME, artistImageCache>>
storeVars == <<concerts, deleted_concerts>>
requestVars == <<targetBatch, targetPage, chain>>
guardVars == <<deletedKeys, deletedAtLoad>>
batchVars == <<tasks, i, all, checkedAt, stopReason, taskLog>>
upsertVars == <<results, processedCalls, deduped, queue, count, skippedDeleted,
                totalUpserted, upsertLog>>
dedupVars == <<dIn, dOut, dVariant>>
aiFlagVars == <<aiCreditsExhausted, quotaSignalled>>
aiCountVars == <<callsAfterSignal, imageCalls>>
aiCursorVars == <<curBatch, lnStart>>
aiPageVars == <<pgPage, pgAll, attempt>>
aiCollectVars == <<allConcerts, collectedKeys>>
aiVars == <<aiFlagVars, lovableApiKey, aiCountVars, aiCursorVars, aiPageVars,
            aiCollectVars>>

rerunVars == <<invocation, world, prev, chainLog>>
qualityVars == <<qIn, qOut>>
manageVars == <<mpc, mreq, toDelete, mqueue, mresp, removed, mBefore>>
otherVars == <<body, rerunVars, qualityVars, manageVars>>

vars == <<processVars, storeVars, pc, requestVars, guardVars, batchVars,
          upsertVars, triggerLog, response, dedupVars, aiVars, otherVars>>

(***************************************************************************)
(* Bounds of the model                                                     *)
(***************************************************************************)
\* elapsed-time budget, in ticks (one tick = one inter-task delay)
TimeBudgetTicks == 3
\* longest candidate list handed to deduplicateConcerts in SpecDedup
MaxDedupLen == 3
\* longest text handed to the key normalizers in SpecNormalize
MaxTextLen == 3
\* largest budget of SpecBudget, in task units
MaxBudgetUnits == 5
\* largest page limit handed to scrapePaginated in SpecPages
MaxPages == 3
\* how many tasks of the first handler's list SpecSettled carries
MaxSettledTasks == 3

(***************************************************************************)
(* Text helpers (String.prototype methods used by the code)                *)
(***************************************************************************)
\* the value null / undefined of a nullable text field
NULL == <<"\\null">>

\* JavaScript truthiness of a nullable text value
Truthy(x) == x # NULL /\ x # <<>>

UpperChars == <<"A", "B", "C", "D", "E", "F", "G", "H", "I", "J", "K", "L", "M",
                "N", "O", "P", "Q", "R", "S", "T", "U", "V", "W", "X", "Y", "Z",
                "A_ring", "A_uml", "O_uml", "E_acute", "U_uml">>
LowerChars == <<"a", "b", "c", "d", "e", "f", "g", "h", "i", "j", "k", "l", "m",
                "n", "o", "p", "q", "r", "s", "t", "u", "v", "w", "x", "y", "z",
                "a_ring", "a_uml", "o_uml", "e_acute", "u_uml">>
Digits == {"0", "1", "2", "3", "4", "5", "6", "7", "8", "9"}

ToLowerChar(c) ==
  IF \E k \in 1..Len(UpperChars) : UpperChars[k] = c
  THEN LowerChars[CHOOSE k \in 1..Len(UpperChars) : UpperChars[k] = c]
  ELSE c

\* s.toLowerCase()
ToLowerCase(s) == [k \in 1..Len(s) |-> ToLowerChar(s[k])]

\* the characters a String.replace keeps
RECURSIVE Keep(_, _)
Keep(s, ok) ==
  IF s = <<>> THEN <<>>
  ELSE (IF Head(s) \in ok THEN <<Head(s)>> ELSE <<>>) \o Keep(Tail(s), ok)

\* s.split(/[seps]/)[0]: the text before the first separator
RECURSIVE SplitFirst(_, _)
SplitFirst(s, seps) ==
  IF s = <<>> \/ Head(s) \in seps THEN <<>>
  ELSE <<Head(s)>> \o SplitFirst(Tail(s), seps)

WhiteSpace == {" "}

RECURSIVE TrimStart(_)
TrimStart(s) ==
  IF s # <<>> /\ Head(s) \in WhiteSpace THEN TrimStart(Tail(s)) ELSE s

RECURSIVE TrimEnd(_)
TrimEnd(s) ==
  IF s # <<>> /\ s[Len(s)] \in WhiteSpace
  THEN TrimEnd(SubSeq(s, 1, Len(s) - 1)) ELSE s

\* s.trim()
Trim(s) == TrimEnd(TrimStart(s))

\* s.includes(sub)
Includes(s, sub) ==
  \E k \in 0..(Len(s) - Len(sub)) : SubSeq(s, k + 1, k + Len(sub)) = sub

\* s.startsWith(sub)
StartsWith(s, sub) == Len(sub) <= Len(s) /\ SubSeq(s, 1, Len(sub)) = sub

\* s.endsWith(sub)
EndsWith(s, sub) ==
  Len(sub) <= Len(s) /\ SubSeq(s, Len(s) - Len(sub) + 1, Len(s)) = sub

(***************************************************************************)
(* Natural key (scrape-concerts/index.ts 304-309)                          *)
(***************************************************************************)
\* [a-z a-ring a-uml o-uml 0-9], the characters normalize keeps
KeyChars == {"a", "b", "c", "d", "e", "f", "g", "h", "i", "j", "k", "l", "m",
             "n", "o", "p", "q", "r", "s", "t", "u", "v", "w", "x", "y", "z",
             "a_ring", "a_uml", "o_uml"} \cup Digits

ArtistSeparators == {":", "-", "endash", "emdash", "|"}
VenueSeparators == {",", "-", "endash", "emdash"}

\* s.replace(re, "") with a pattern lacking the g flag: only the first match goes
RECURSIVE DropFirst(_, _)
DropFirst(s, ok) ==
  IF s = <<>> THEN <<>>
  ELSE IF Head(s) \in ok THEN <<Head(s)>> \o DropFirst(Tail(s), ok)
  ELSE Tail(s)

normalizeFirstOnly(s) == DropFirst(ToLowerCase(s), KeyChars)

normalize(s) == Keep(ToLowerCase(s), KeyChars)

normalizeArtist(s) == normalize(Trim(SplitFirst(s, ArtistSeparators)))

\* index.ts 306 splitting at the separators of the artist
normalizeVenueKeyAsArtist(s) == normalize(Trim(SplitFirst(s, ArtistSeparators)))

normalizeVenueKey(s) == normalize(Trim(SplitFirst(s, VenueSeparators)))

(***************************************************************************)
(* A date text is a record: valid |-> TRUE with the local day, the local   *)
(* hour and the UTC offset in hours it states, or valid |-> FALSE for a    *)
(* text new Date() cannot parse (day then only tells such texts apart).    *)
(***************************************************************************)
DateText(d, h, z) == [valid |-> TRUE, day |-> d, hour |-> h, tz |-> z]
BadDate(n) == [valid |-> FALSE, day |-> n, hour |-> 0, tz |-> 0]

\* the UTC calendar day of a valid date text
UtcDay(d) ==
  IF d.hour - d.tz < 0 THEN d.day - 1
  ELSE IF d.hour - d.tz >= 24 THEN d.day + 1
  ELSE d.day

\* the instant a valid date text denotes, in hours (a timestamptz value)
Instant(d) == d.day * 24 + d.hour - d.tz

\* new Date(d).toISOString().split("T")[0], or d itself when that throws
dateOnly(d) ==
  IF d.valid THEN <<"utc", UtcDay(d)>>
  ELSE <<"raw", d.day, d.hour, d.tz>>

NaturalKey(c) ==
  <<normalizeArtist(c.artist), normalizeVenueKey(c.venue), dateOnly(c.date)>>

(***************************************************************************)
(* ScrapedConcert (index.ts 16-27).  ticket_sale_date and source_url are   *)
(* carried through unread by every step modelled here and are left out.    *)
(***************************************************************************)
Concert(a, v, d, t, img, avail, et, src) ==
  [artist |-> a, venue |-> v, date |-> d, ticket_url |-> t, image_url |-> img,
   tickets_available |-> avail, event_type |-> et, source |-> src]

\* a || b on nullable text
OrElse(a, b) == IF Truthy(a) THEN a ELSE b

(***************************************************************************)
(* deduplicateConcerts (index.ts 311-330).  seen is the Map, kept as the   *)
(* sequence of its entries in insertion order.                             *)
(***************************************************************************)
SeenHas(seen, key) == \E k \in 1..Len(seen) : seen[k].key = key

SeenGet(seen, key) == seen[CHOOSE k \in 1..Len(seen) : seen[k].key = key].val

SeenSet(seen, key, val) ==
  IF SeenHas(seen, key)
  THEN [k \in 1..Len(seen) |->
          IF seen[k].key = key THEN [key |-> key, val |-> val] ELSE seen[k]]
  ELSE Append(seen, [key |-> key, val |-> val])

SeenValues(seen) == [k \in 1..Len(seen) |-> seen[k].val]

\* index.ts 320-321 with the ticket URL weighted like the other two fields
ScoreFlat(c) ==
  (IF Truthy(c.ticket_url) THEN 1 ELSE 0)
  + (IF Truthy(c.image_url) THEN 1 ELSE 0)
  + (IF c.tickets_available THEN 1 ELSE 0)

Score(c) ==
  (IF Truthy(c.ticket_url) THEN 2 ELSE 0)
  + (IF Truthy(c.image_url) THEN 1 ELSE 0)
  + (IF c.tickets_available THEN 1 ELSE 0)

\* index.ts 320-326, dropping the merge of the else branch
MergeExistingNoMerge(existing, c) ==
  IF Score(c) > Score(existing)
  THEN [c EXCEPT !.image_url = OrElse(c.image_url, existing.image_url)]
  ELSE existing

\* index.ts 318-326: the entry kept when the key is already present
MergeExisting(existing, c) ==
  IF Score(c) > Score(existing)
  THEN [c EXCEPT !.image_url = OrElse(c.image_url, existing.image_url)]
  ELSE [existing EXCEPT !.image_url = OrElse(existing.image_url, c.image_url),
                        !.ticket_url = OrElse(existing.ticket_url, c.ticket_url)]

\* a Map keyed by the artist component alone
DedupStepArtistOnly(seen, c) ==
  LET key == <<normalizeArtist(c.artist)>>
  IN IF ~SeenHas(seen, key) THEN SeenSet(seen, key, c)
     ELSE SeenSet(seen, key, MergeExisting(SeenGet(seen, key), c))

\* index.ts 313-327: one iteration of the loop
DedupStep(seen, c) ==
  LET key == NaturalKey(c)
  IN IF ~SeenHas(seen, key) THEN SeenSet(seen, key, c)
     ELSE SeenSet(seen, key, MergeExisting(SeenGet(seen, key), c))

RECURSIVE DedupFold(_, _)
DedupFold(seen, list) ==
  IF list = <<>> THEN seen
  ELSE DedupFold(DedupStep(seen, Head(list)), Tail(list))

deduplicateConcerts(list) == SeenValues(DedupFold(<<>>, list))

(***************************************************************************)
(* deduplicateConcerts of the AI-extraction variant (part_002 882-901)     *)
(***************************************************************************)
\* part_002 891-897 with the replacement taking the new candidate as it is
MergeExistingAIReplace(existing, c) ==
  IF \/ (~Truthy(existing.image_url) /\ Truthy(c.image_url))
     \/ (~Truthy(existing.ticket_url) /\ Truthy(c.ticket_url))
     \/ Len(c.artist) < Len(existing.artist)
  THEN c
  ELSE existing

MergeExistingAI(existing, c) ==
  IF \/ (~Truthy(existing.image_url) /\ Truthy(c.image_url))
     \/ (~Truthy(existing.ticket_url) /\ Truthy(c.ticket_url))
     \/ Len(c.artist) < Len(existing.artist)
  THEN [c EXCEPT !.image_url = OrElse(c.image_url, existing.image_url),
                 !.ticket_url = OrElse(c.ticket_url, existing.ticket_url)]
  ELSE existing

DedupStepAI(seen, c) ==
  LET key == NaturalKey(c)
  IN IF ~SeenHas(seen, key) THEN SeenSet(seen, key, c)
     ELSE SeenSet(seen, key, MergeExistingAI(SeenGet(seen, key), c))

RECURSIVE DedupFoldAI(_, _)
DedupFoldAI(seen, list) ==
  IF list = <<>> THEN seen
  ELSE DedupFoldAI(DedupStepAI(seen, Head(list)), Tail(list))

deduplicateConcertsAI(list) == SeenValues(DedupFoldAI(<<>>, list))

(***************************************************************************)
(* Texts of the program and sample texts                                   *)
(***************************************************************************)
S_LiveNation == <<"L", "i", "v", "e", " ", "N", "a", "t", "i", "o", "n">>
S_AllThingsLive == <<"A", "l", "l", " ", "T", "h", "i", "n", "g", "s", " ", "L", "i", "v", "e">>
S_ResidentAdvisor == <<"R", "e", "s", "i", "d", "e", "n", "t", " ", "A", "d", "v", "i", "s", "o", "r">>
S_Cirkus == <<"C", "i", "r", "k", "u", "s">>
S_GronaLund == <<"G", "r", "o_uml", "n", "a", " ", "L", "u", "n", "d">>
S_SodraTeatern == <<"S", "o_uml", "d", "r", "a", " ", "T", "e", "a", "t", "e", "r", "n">>
S_StockholmLive == <<"S", "t", "o", "c", "k", "h", "o", "l", "m", " ", "L", "i", "v", "e">>
S_AXS == <<"A", "X", "S">>
S_Konserthuset == <<"K", "o", "n", "s", "e", "r", "t", "h", "u", "s", "e", "t">>
S_Ticketmaster == <<"T", "i", "c", "k", "e", "t", "m", "a", "s", "t", "e", "r">>
S_Nojesteatern == <<"N", "o_uml", "j", "e", "s", "t", "e", "a", "t", "e", "r", "n">>
S_Hyvens == <<"H", "y", "v", "e", "n", "s">>
S_Kulturhuset == <<"K", "u", "l", "t", "u", "r", "h", "u", "s", "e", "t", " ", "S", "t", "a", "d", "s", "t", "e", "a", "t", "e", "r", "n">>
T_Unknown == <<"U", "n", "k", "n", "o", "w", "n">>
T_stockholm == <<"s", "t", "o", "c", "k", "h", "o", "l", "m">>
T_sweden == <<"s", "w", "e", "d", "e", "n">>
T_sverige == <<"s", "v", "e", "r", "i", "g", "e">>
T_examplecom == <<"e", "x", "a", "m", "p", "l", "e", ".", "c", "o", "m">>
T_idpreview == <<"i", "d", "-", "p", "r", "e", "v", "i", "e", "w", "-", "-">>
T_lovableapp == <<"l", "o", "v", "a", "b", "l", "e", ".", "a", "p", "p">>
T_localhost == <<"l", "o", "c", "a", "l", "h", "o", "s", "t">>
T_NalenStockholm == <<"N", "a", "l", "e", "n", ",", " ", "S", "t", "o", "c", "k", "h", "o", "l", "m">>
T_O2London == <<"O", "2", " ", "A", "r", "e", "n", "a", ",", " ", "L", "o", "n", "d", "o", "n">>
T_UrlExample == <<"h", "t", "t", "p", "s", ":", "/", "/", "e", "x", "a", "m", "p", "l", "e", ".", "c", "o", "m", "/", "t">>
T_WikiImg == <<"h", "t", "t", "p", "s", ":", "/", "/", "w", ".", "o", "r", "g", "/", "i">>
T_ItunesImg == <<"h", "t", "t", "p", "s", ":", "/", "/", "a", ".", "c", "o", "m", "/", "6", "0", "0", "x", "6", "0", "0">>
T_kulturhuset == <<"k", "u", "l", "t", "u", "r", "h", "u", "s", "e", "t">>
T_Ab == <<"A", "b">>
T_abTour == <<"a", "b", ":", " ", "T">>
T_Cd == <<"C", "d">>
T_CD == <<"C", "D">>
T_Nalen == <<"N", "a", "l", "e", "n">>
T_NalenKlubb == <<"n", "a", "l", "e", "n", " ", "-", " ", "K">>
T_Berns == <<"B", "e", "r", "n", "s">>
T_Url1 == <<"h", "t", "t", "p", "s", ":", "/", "/", "t", ".", "s", "e", "/", "1">>
T_Url2 == <<"h", "t", "t", "p", "s", ":", "/", "/", "t", ".", "s", "e", "/", "2">>
T_Img1 == <<"h", "t", "t", "p", "s", ":", "/", "/", "i", ".", "s", "e", "/", "1">>
T_Img2 == <<"h", "t", "t", "p", "s", ":", "/", "/", "i", ".", "s", "e", "/", "2">>
T_concert == <<"c", "o", "n", "c", "e", "r", "t">>
T_comedy == <<"c", "o", "m", "e", "d", "y">>

\* day 5 at 19:00 UTC; day 6 at 00:30 in UTC+2 is the same UTC day
D_5 == DateText(5, 19, 0)
D_6early == DateText(6, 0, 2)
D_6 == DateText(6, 19, 0)
D_bad == BadDate(1)
\* an event the backend returned without a date
D_missing == BadDate(0)
\* new Date().toISOString(): the process was loaded at 00:00 of day 1 and
\* the time of day advances by one unit with every tick of the clock
NowIso == DateText(1 + now \div 24, now % 24, 0)

(***************************************************************************)
(* Data quality filters (index.ts 115-172)                                 *)
(***************************************************************************)
\* index.ts 138-150
STOCKHOLM_VENUE_KEYWORDS ==
  << <<"s", "t", "o", "c", "k", "h", "o", "l", "m">>,
     <<"g", "r", "o_uml", "n", "a", " ", "l", "u", "n", "d">>,
     <<"g", "r", "o", "n", "a", " ", "l", "u", "n", "d">>,
     <<"c", "i", "r", "k", "u", "s">>,
     <<"g", "l", "o", "b", "e", "n">>,
     <<"a", "v", "i", "c", "i", "i", " ", "a", "r", "e", "n", "a">>,
     <<"h", "o", "v", "e", "t">>,
     <<"s", "t", "r", "a", "w", "b", "e", "r", "r", "y", " ", "a", "r", "e", "n", "a">>,
     <<"k", "o", "n", "s", "e", "r", "t", "h", "u", "s", "e", "t">>,
     <<"s", "o_uml", "d", "r", "a", " ", "t", "e", "a", "t", "e", "r", "n">>,
     <<"s", "o", "d", "r", "a", " ", "t", "e", "a", "t", "e", "r", "n">>,
     <<"k", "u", "l", "t", "u", "r", "h", "u", "s", "e", "t">>,
     <<"a", "n", "n", "e", "x", "e", "t">>,
     <<"d", "e", "b", "a", "s", "e", "r">>,
     <<"b", "e", "r", "n", "s">>,
     <<"n", "a", "l", "e", "n">>,
     <<"m", "u_uml", "n", "c", "h", "e", "n", "b", "r", "y", "g", "g", "e", "r", "i", "e", "t">>,
     <<"m", "u", "n", "c", "h", "e", "n", "b", "r", "y", "g", "g", "e", "r", "i", "e", "t">>,
     <<"f", "i", "l", "a", "d", "e", "l", "f", "i", "a">>,
     <<"f", "a_ring", "l", "l", "a", "n">>,
     <<"f", "a", "l", "l", "a", "n">>,
     <<"v", "a", "s", "a", "t", "e", "a", "t", "e", "r", "n">>,
     <<"g", "o_uml", "t", "a", " ", "l", "e", "j", "o", "n">>,
     <<"g", "o", "t", "a", " ", "l", "e", "j", "o", "n">>,
     <<"c", "h", "i", "n", "a", "t", "e", "a", "t", "e", "r", "n">>,
     <<"r", "i", "v", "a", "l">>,
     <<"s", "c", "a", "n", "d", "i", "n", "a", "v", "i", "u", "m">>,
     <<"e", "r", "i", "c", "s", "s", "o", "n", " ", "g", "l", "o", "b", "e">>,
     <<"t", "e", "l", "e", "2">>,
     <<"f", "r", "i", "e", "n", "d", "s", " ", "a", "r", "e", "n", "a">>,
     <<"s", "t", "o", "c", "k", "h", "o", "l", "m", " ", "l", "i", "v", "e">>,
     <<"a", "]">>,
     <<"k", "u", "n", "g", "s", "t", "r", "a_uml", "d", "g", "a_ring", "r", "d", "e", "n">>,
     <<"k", "u", "n", "g", "s", "t", "r", "a", "d", "g", "a", "r", "d", "e", "n">>,
     <<"s", "k", "a", "n", "s", "e", "n">>,
     <<"g", "r", "o_uml", "n", "a", "n">>,
     <<"l", "i", "l", "l", "a", " ", "s", "c", "e", "n">>,
     <<"s", "t", "o", "r", "a", " ", "s", "c", "e", "n">>,
     <<"s", "j", "o_uml", "h", "i", "s", "t", "o", "r", "i", "s", "k", "a">>,
     <<"n", "o_uml", "j", "e", "s", "t", "e", "a", "t", "e", "r", "n">>,
     <<"h", "y", "v", "e", "n", "s">>,
     <<"s", "l", "a", "k", "t", "k", "y", "r", "k", "a", "n">>,
     <<"k", "r", "a", "k", "e", "n">>,
     <<"f", "r", "y", "s", "h", "u", "s", "e", "t">>,
     <<"a", "r", "e", "n", "a", "n">>,
     <<"t", "r", "a_uml", "d", "g", "a_ring", "r", "d", "e", "n">>,
     <<"t", "r", "a", "d", "g", "a", "r", "d", "e", "n">>,
     <<"u", "n", "d", "e", "r", " ", "b", "r", "o", "n">>,
     <<"s", "t", "h", "l", "m">>,
     <<"k", "o", "l", "i", "n", "g", "s", "b", "o", "r", "g">>,
     <<"s", "k", "y", "b", "a", "r">>,
     <<"f", "a", "s", "c", "h", "i", "n", "g">>,
     <<"s", "t", "a", "m", "p", "e", "n">>,
     <<"g", "l", "e", "n", " ", "m", "i", "l", "l", "e", "r", " ", "c", "a", "f", "e_acute">>,
     <<"j", "a", "z", "z", "c", "l", "u", "b">>,
     <<"b", "l", "a_ring", " ", "d", "o_uml", "r", "r", "e", "n">>,
     <<"k", "a", "g", "e", "l", "b", "a", "n", "a", "n">> >>

\* index.ts 118-126, in insertion order
VENUE_NORMALIZATION ==
  << [key |-> <<"s", "t", "o", "r", "a", " ", "s", "c", "e", "n">>,
      normalized |-> <<"G", "r", "o_uml", "n", "a", " ", "L", "u", "n", "d">>],
     [key |-> <<"s", "t", "o", "r", "a", " ", "s", "c", "e", "n", "e", "n">>,
      normalized |-> <<"G", "r", "o_uml", "n", "a", " ", "L", "u", "n", "d">>],
     [key |-> <<"l", "i", "l", "l", "a", " ", "s", "c", "e", "n", "e", "n">>,
      normalized |-> <<"G", "r", "o_uml", "n", "a", " ", "L", "u", "n", "d">>],
     [key |-> <<"g", "r", "o_uml", "n", "a", " ", "l", "u", "n", "d", " ", "s", "t", "o", "r", "a", " ", "s", "c", "e", "n">>,
      normalized |-> <<"G", "r", "o_uml", "n", "a", " ", "L", "u", "n", "d">>],
     [key |-> <<"g", "r", "o_uml", "n", "a", " ", "l", "u", "n", "d", " ", "l", "i", "l", "l", "a", " ", "s", "c", "e", "n">>,
      normalized |-> <<"G", "r", "o_uml", "n", "a", " ", "L", "u", "n", "d">>],
     [key |-> <<"f", "r", "i", "e", "n", "d", "s", " ", "a", "r", "e", "n", "a">>,
      normalized |-> <<"S", "t", "r", "a", "w", "b", "e", "r", "r", "y", " ", "A", "r", "e", "n", "a">>],
     [key |-> <<"t", "e", "l", "e", "2", " ", "a", "r", "e", "n", "a">>,
      normalized |-> <<"S", "t", "r", "a", "w", "b", "e", "r", "r", "y", " ", "A", "r", "e", "n", "a">>] >>


CitySuffixes == {T_stockholm, T_sweden, T_sverige}

\* the positions where /,\s*(stockholm|sweden|sverige)$/i matches
CitySuffixAt(venue) ==
  { k \in 1..Len(venue) :
      /\ venue[k] = ","
      /\ TrimStart(ToLowerCase(SubSeq(venue, k + 1, Len(venue)))) \in CitySuffixes }

Min(S) == CHOOSE x \in S : \A y \in S : x <= y

\* index.ts 128-135 with the alias keys looked up in the venue as written
normalizeVenueNameCaseSensitive(venue) ==
  LET hits == { k \in 1..Len(VENUE_NORMALIZATION) :
                  Includes(Trim(venue), VENUE_NORMALIZATION[k].key) }
  IN IF hits # {} THEN VENUE_NORMALIZATION[Min(hits)].normalized
     ELSE IF CitySuffixAt(venue) # {}
          THEN Trim(SubSeq(venue, 1, Min(CitySuffixAt(venue)) - 1))
          ELSE Trim(venue)

\* index.ts 128-135
normalizeVenueName(venue) ==
  LET lower == Trim(ToLowerCase(venue))
      hits == { k \in 1..Len(VENUE_NORMALIZATION) :
                  Includes(lower, VENUE_NORMALIZATION[k].key) }
  IN IF hits # {} THEN VENUE_NORMALIZATION[Min(hits)].normalized
     ELSE IF CitySuffixAt(venue) # {}
          THEN Trim(SubSeq(venue, 1, Min(CitySuffixAt(venue)) - 1))
          ELSE Trim(venue)

\* index.ts 152-155
isStockholmVenue(venue) ==
  LET lower == ToLowerCase(venue)
  IN \E k \in 1..Len(STOCKHOLM_VENUE_KEYWORDS) :
       Includes(lower, STOCKHOLM_VENUE_KEYWORDS[k])

Letters == { LowerChars[k] : k \in 1..26 } \cup { UpperChars[k] : k \in 1..26 }
SchemeChars == Letters \cup Digits \cup {"+", "-", "."}
SpecialSchemes == { <<"h", "t", "t", "p">>, <<"h", "t", "t", "p", "s">>,
                    <<"w", "s">>, <<"w", "s", "s">>, <<"f", "t", "p">> }

RECURSIVE DropWhile(_, _)
DropWhile(s, cs) ==
  IF s # <<>> /\ Head(s) \in cs THEN DropWhile(Tail(s), cs) ELSE s

\* new URL(url) does not throw: the text has a scheme and, when the scheme
\* is a special one, a host that is not empty and holds no space
UrlParses(url) ==
  LET u == Trim(url)
      scheme == SplitFirst(u, {":"})
      rest == SubSeq(u, Len(scheme) + 2, Len(u))
      host == SplitFirst(DropWhile(rest, {"/", "\\"}), {"/", "?", "#", "\\"})
  IN /\ Len(scheme) < Len(u)
     /\ scheme # <<>>
     /\ scheme[1] \in Letters
     /\ \A k \in 1..Len(scheme) : scheme[k] \in SchemeChars
     /\ ToLowerCase(scheme) \in SpecialSchemes =>
          host # <<>> /\ \A k \in 1..Len(host) : host[k] # " "

\* index.ts 158-172
isValidTicketUrl(url) ==
  IF ~Truthy(url) THEN FALSE
  ELSE LET lower == ToLowerCase(url)
       IN /\ ~Includes(lower, T_examplecom)
          /\ ~Includes(lower, T_idpreview)
          /\ ~Includes(lower, T_lovableapp)
          /\ ~Includes(lower, T_localhost)
          /\ lower # <<"#">> /\ lower # <<"/">>
          /\ UrlParses(url)

(***************************************************************************)
(* scrapeSource (index.ts 211-280).  resp is what the scraping backend did *)
(* with the request: "throws" (the call or the body parse threw),          *)
(* "httpError" (!response.ok), "malformed" (no events array) or "ok" with  *)
(* the events it extracted.                                                *)
(***************************************************************************)
RawEvent(a, v, d, t, avail, img) ==
  [artist |-> a, venue |-> v, date |-> d, ticket_url |-> t,
   tickets_available |-> avail, image_url |-> img]

\* index.ts 256-267
MapEvent(c, sourceName, eventCategory) ==
  Concert(OrElse(c.artist, T_Unknown),
          normalizeVenueName(OrElse(c.venue, sourceName)),
          IF c.date = D_missing THEN NowIso ELSE c.date,
          IF isValidTicketUrl(c.ticket_url) THEN c.ticket_url ELSE NULL,
          OrElse(c.image_url, NULL),
          c.tickets_available = "true",
          eventCategory,
          sourceName)

\* index.ts 255-275 with a filter that does not look at the source name
scrapeSourceVenueOnly(resp, sourceName, eventCategory) ==
  LET IsStockholm(c) == isStockholmVenue(c.venue)
  IN IF resp.kind # "ok" THEN <<>>
     ELSE SelectSeq([k \in 1..Len(resp.events) |->
                       MapEvent(resp.events[k], sourceName, eventCategory)],
                    IsStockholm)

\* index.ts 211-280
scrapeSource(resp, sourceName, eventCategory) ==
  LET IsStockholm(c) == isStockholmVenue(c.venue) \/ isStockholmVenue(sourceName)
  IN IF resp.kind # "ok" THEN <<>>
     ELSE SelectSeq([k \in 1..Len(resp.events) |->
                       MapEvent(resp.events[k], sourceName, eventCategory)],
                    IsStockholm)

(***************************************************************************)
(* lookupArtistImage (index.ts 31-96).  env is what the services answer:   *)
(*   mb     MusicBrainz search: "throws" | "noArtist" | "found"            *)
(*   rel    MusicBrainz url-rels: "throws" | "none" | "wikidata"           *)
(*   wd     Wikidata P18 claim: "throws" | "none" | "image"                *)
(*   itunes iTunes search: "throws" | "none" | "art"                       *)
(***************************************************************************)
ImageEnv(mb, rel, wd, itunes) == [mb |-> mb, rel |-> rel, wd |-> wd, itunes |-> itunes]

\* an exception instead of a value
RAISED == <<"\\raised">>

\* index.ts 39-91: the body of the try block; a fetch or a json() that
\* throws leaves it with the exception
LookupTry(env) ==
  IF env.mb = "throws" THEN RAISED
  ELSE IF env.mb = "noArtist" THEN NULL
  ELSE IF env.rel = "throws" THEN RAISED
  ELSE IF env.rel = "wikidata" /\ env.wd = "throws" THEN RAISED
  ELSE IF env.rel = "wikidata" /\ env.wd = "image" THEN T_WikiImg
  ELSE IF env.itunes = "throws" THEN RAISED
  ELSE IF env.itunes = "art" THEN T_ItunesImg
  ELSE NULL

\* index.ts 39-95 without the catch
LookupResultNoCatch(env) == LookupTry(env)

\* index.ts 39-95 when the cache has no entry: the catch turns the
\* exception into null
LookupResult(env) ==
  IF LookupTry(env) = RAISED THEN NULL ELSE LookupTry(env)

\* index.ts 35-36
ImageCacheKey(artist) ==
  ToLowerCase(Trim(SplitFirst(artist, ArtistSeparators \cup {"("})))

CacheHas(cache, key) == \E e \in cache : e[1] = key
CacheGet(cache, key) == (CHOOSE e \in cache : e[1] = key)[2]

\* index.ts 34-96: the URL returned and the cache afterwards
lookupArtistImage(artist, cache, env) ==
  LET key == ImageCacheKey(artist)
  IN IF CacheHas(cache, key)
     THEN [url |-> CacheGet(cache, key), cache |-> cache]
     ELSE [url |-> LookupResult(env),
           cache |-> cache \cup {<<key, LookupResult(env)>>}]

(***************************************************************************)
(* Source registry (index.ts 332-340, 451-572)                             *)
(***************************************************************************)
TOTAL_BATCHES == 24
LAST_LIVE_NATION_PAGE == 50

Task(site, page, source, category) ==
  [site |-> site, page |-> page, path |-> <<>>, source |-> source,
   category |-> category]

\* index.ts 335-340 with the first page of a batch one lower
getLiveNationPagesFromZero(batch) ==
  LET start == (batch - 1) * 3
      end == IF start + 2 < LAST_LIVE_NATION_PAGE THEN start + 2
             ELSE LAST_LIVE_NATION_PAGE
  IN IF start > LAST_LIVE_NATION_PAGE THEN <<>>
     ELSE [k \in 1..(end - start + 1) |-> start + k - 1]

\* index.ts 335-340 leaving out the pages when rows of the source are stored
getLiveNationPagesUnlessStored(batch) ==
  LET start == (batch - 1) * 3 + 1
      end == IF start + 2 < LAST_LIVE_NATION_PAGE THEN start + 2
             ELSE LAST_LIVE_NATION_PAGE
  IN IF start > LAST_LIVE_NATION_PAGE \/ \E r \in concerts : r.source = S_LiveNation
     THEN <<>>
     ELSE [k \in 1..(end - start + 1) |-> start + k - 1]

\* index.ts 335-340
getLiveNationPages(batch) ==
  LET start == (batch - 1) * 3 + 1
      end == IF start + 2 < LAST_LIVE_NATION_PAGE THEN start + 2
             ELSE LAST_LIVE_NATION_PAGE
  IN IF start > LAST_LIVE_NATION_PAGE THEN <<>>
     ELSE [k \in 1..(end - start + 1) |-> start + k - 1]

\* index.ts 451-530: the task list of the batches with a fixed list
StaticTasks(batch) ==
  IF batch >= 1 /\ batch <= 17 THEN
    LET pages == getLiveNationPages(batch)
    IN [k \in 1..Len(pages) |-> Task("livenation", pages[k], S_LiveNation, T_concert)]
  ELSE IF batch = 18 THEN
    << Task("allthingslive", 1, S_AllThingsLive, T_concert),
       Task("ra", 1, S_ResidentAdvisor, T_concert),
       Task("ra", 2, S_ResidentAdvisor, T_concert),
       Task("ra", 3, S_ResidentAdvisor, T_concert) >>
  ELSE IF batch = 19 THEN
    << Task("cirkus", 1, S_Cirkus, T_concert),
       Task("cirkus", 2, S_Cirkus, T_concert),
       Task("cirkus", 3, S_Cirkus, T_concert),
       Task("gronalund", 1, S_GronaLund, T_concert),
       Task("sodrateatern", 1, S_SodraTeatern, T_concert) >>
  ELSE IF batch = 20 THEN
    << Task("stockholmlive", 1, S_StockholmLive, T_concert),
       Task("stockholmlive", 2, S_StockholmLive, T_concert),
       Task("stockholmlive", 3, S_StockholmLive, T_concert),
       Task("axs-avicii", 1, S_AXS, T_concert),
       Task("axs-hovet", 1, S_AXS, T_concert),
       Task("axs-strawberry", 1, S_AXS, T_concert) >>
  ELSE IF batch = 21 THEN
    [k \in 1..11 |-> Task("konserthuset", k + 1, S_Konserthuset, T_concert)]
  ELSE IF batch = 22 THEN
    [k \in 1..3 |-> Task("ticketmaster", k, S_Ticketmaster, T_concert)]
  ELSE IF batch = 23 THEN
    << Task("nojesteatern", 1, S_Nojesteatern, T_comedy),
       Task("hyvens", 1, S_Hyvens, T_comedy),
       Task("livenation-comedy", 1, S_LiveNation, T_comedy) >>
  ELSE <<>>

(***************************************************************************)
(* Batch 24: Kulturhuset auto-discovery (index.ts 533-572).  A link of the *)
(* listing page is [konserter, path]: whether it starts with the concert   *)
(* listing's URL, and the text after that prefix.                          *)
(***************************************************************************)
Link(k, p) == [konserter |-> k, path |-> p]

\* url.split("/").pop() || ""
RECURSIVE LastSegment(_)
LastSegment(p) ==
  IF \E k \in 1..Len(p) : p[k] = "/"
  THEN LastSegment(SubSeq(p, (CHOOSE k \in 1..Len(p) : p[k] = "/") + 1, Len(p)))
  ELSE p

\* slug.replace(/-/g, " ").toLowerCase()
ArtistGuess(link) ==
  ToLowerCase([k \in 1..Len(LastSegment(link.path)) |->
                 IF LastSegment(link.path)[k] = "-" THEN " "
                 ELSE LastSegment(link.path)[k]])

\* index.ts 549-553; a failed query leaves the set empty
ExistingArtists(table, queryOk) ==
  IF ~queryOk THEN {}
  ELSE { ToLowerCase(r.artist) :
           r \in { q \in table : \/ q.source = S_Kulturhuset
                                 \/ Includes(ToLowerCase(q.venue), T_kulturhuset) } }

\* index.ts 543, 555-564
KulturhusetPageUrls(links, existing, page) ==
  LET IsConcertUrl(l) == l.konserter /\ l.path # <<>>
      IsMissing(l) ==
        ~ \E a \in existing : Includes(a, ArtistGuess(l)) \/ Includes(ArtistGuess(l), a)
      missingUrls == SelectSeq(SelectSeq(links, IsConcertUrl), IsMissing)
      startIdx == (page - 1) * 4
      last == IF startIdx + 4 < Len(missingUrls) THEN startIdx + 4 ELSE Len(missingUrls)
  IN SubSeq(missingUrls, startIdx + 1, last)

KulturhusetTasks(pageUrls) ==
  [k \in 1..Len(pageUrls) |->
     [site |-> "kulturhuset", page |-> 0, path |-> pageUrls[k].path,
      source |-> S_Kulturhuset, category |-> T_concert]]

NoResponse == [status |-> 0, success |-> FALSE, batch |-> 0, totalBatches |-> 0,
               chain |-> FALSE, found |-> 0, upserted |-> 0, elapsed |-> 0,
               statusNote |-> "absent"]

\* the handler before a request arrives
HandlerIdle ==
  /\ now = 0 /\ START_TIME = 0 /\ artistImageCache = {}
  /\ pc = "idle"
  /\ targetBatch = 1 /\ targetPage = 1 /\ chain = FALSE
  /\ deletedKeys = {} /\ deletedAtLoad = {}
  /\ tasks = <<>> /\ i = 0 /\ all = <<>> /\ checkedAt = 0
  /\ stopReason = "none" /\ taskLog = <<>>
  /\ results = <<>> /\ processedCalls = 0 /\ deduped = <<>> /\ queue = <<>>
  /\ count = 0 /\ skippedDeleted = 0 /\ totalUpserted = 0 /\ upsertLog = <<>>
  /\ triggerLog = <<>>
  /\ response = NoResponse
  /\ aiCreditsExhausted = FALSE /\ lovableApiKey = FALSE
  /\ curBatch = 1 /\ lnStart = 1 /\ pgPage = 1 /\ pgAll = <<>> /\ attempt = 0
  /\ allConcerts = <<>> /\ quotaSignalled = FALSE
  /\ callsAfterSignal = 0 /\ imageCalls = 0
  /\ collectedKeys = {}

DedupIdle == dIn = <<>> /\ dOut = <<>> /\ dVariant = "none"

\* no request body read yet
NoBody == [bad |-> FALSE, batch |-> 0, chain |-> "none", page |-> 0]

\* a world narrows the inputs of the handler; this one narrows nothing
AnyWorld == [fixed |-> FALSE]

NoRequest == [auth |-> "none", action |-> "none"]
NoManageResponse == [status |-> 0, success |-> FALSE]

\* manage-concerts before a request arrives
ManageIdle ==
  /\ mpc = "idle" /\ mreq = NoRequest
  /\ toDelete = [isNull |-> TRUE, rows |-> <<>>] /\ mqueue = <<>>
  /\ mresp = NoManageResponse /\ removed = {}
  /\ mBefore = [concerts |-> {}, deleted_concerts |-> {}]

QualityIdle == qIn = <<>> /\ qOut = <<>>

\* a process that has taken no request
RerunIdle ==
  /\ body = NoBody /\ invocation = 0
  /\ prev = [batch |-> 0, tasks |-> <<>>, concerts |-> {}]
  /\ chainLog = <<>>

OtherIdle == RerunIdle /\ world = AnyWorld /\ QualityIdle /\ ManageIdle

(***************************************************************************)
(* The tables (migrations 20260210171812 and 20260224095114)               *)
(***************************************************************************)
\* a timestamptz column returns the instant in UTC
ToUtc(d) == DateText(UtcDay(d), (d.hour - d.tz + 24) % 24, 0)

\* UNIQUE(artist, venue, date)
ConflictKey(r) == <<r.artist, r.venue, Instant(r.date)>>

\* the row a record is stored as
StoredRow(rec) == [rec EXCEPT !.date = ToUtc(rec.date)]

\* concerts after upsert(rec, {onConflict: "artist,venue,date"}) succeeded
UpsertRow(table, rec) ==
  { r \in table : ConflictKey(r) # ConflictKey(rec) } \cup {StoredRow(rec)}

DeletionRecord(a, v, d) == [artist |-> a, venue |-> v, date |-> d]

\* index.ts 393-397
DeletedKeySet(rows) == { NaturalKey(d) : d \in rows }

(***************************************************************************)
(* Inputs of the model                                                     *)
(***************************************************************************)
\* longest time one task takes, in ticks
MaxTaskTicks == 2
TaskDurations == {0, MaxTaskTicks}

\* the batch numbers requested
BatchSample == {1, 17, 23, 24, 25}

\* request bodies: bad |-> TRUE when req.json() throws (no body, or text
\* that is not JSON); batch or page 0 stands for a field that is absent;
\* chain is "absent", or the JSON value sent: "true", "false" or "1"
Body(bad, b, c, p) == [bad |-> bad, batch |-> b, chain |-> c, page |-> p]
RequestBodies ==
  { Body(FALSE, b, c, 0) : b \in BatchSample \ {1, 17}, c \in {"true", "absent"} }
  \cup { Body(TRUE, 0, "absent", 0), Body(FALSE, 0, "absent", 0),
         Body(FALSE, 1, "1", 0), Body(FALSE, 17, "true", 0),
         Body(FALSE, 17, "false", 0), Body(FALSE, 24, "true", 2) }

\* events the scraping backend extracts
E_AbTicket == RawEvent(T_Ab, T_NalenStockholm, D_5, T_Url1, "null", NULL)
E_AbImage == RawEvent(T_abTour, T_Nalen, D_6early, NULL, "true", T_Img1)
E_CdDummyUrl == RawEvent(T_CD, T_Berns, D_6, T_UrlExample, "false", NULL)
E_London == RawEvent(T_Cd, T_O2London, D_missing, T_Url2, "true", <<>>)

Resp(kind, events) == [kind |-> kind, events |-> events]
Responses ==
  { Resp("throws", <<>>), Resp("httpError", <<>>), Resp("malformed", <<>>),
    Resp("ok", <<>>), Resp("ok", <<E_AbTicket>>), Resp("ok", <<E_AbImage>>),
    Resp("ok", <<E_CdDummyUrl, E_London>>) }

\* what the image services answer during one lookup
SampleImageEnvs ==
  { ImageEnv("throws", "none", "none", "none"),
    ImageEnv("found", "wikidata", "image", "none") }

\* every combination of a transport failure, an answer without the field
\* and a full answer
AllImageEnvs ==
  { ImageEnv(mb, rel, wd, itunes) :
      mb \in {"throws", "noArtist", "found"},
      rel \in {"throws", "none", "wikidata"},
      wd \in {"throws", "none", "image"},
      itunes \in {"throws", "none", "art"} }

\* the links of the Kulturhuset listing page; <<>> also stands for a
\* failed listing request (index.ts 545-547)
L_ab == Link(TRUE, <<"a", "b">>)
L_xy == Link(TRUE, <<"x", "-", "y">>)
L_listing == Link(TRUE, <<>>)
L_other == Link(FALSE, <<"z">>)
Listings == { <<>>, <<L_listing, L_ab, L_other, L_xy>> }

\* the tables when the request arrives
R_Kulturhuset ==
  Concert(T_Ab, S_Kulturhuset, D_5, NULL, T_Img2, FALSE, T_concert, S_Kulturhuset)
Scenarios ==
  { [concerts |-> {}, deleted |-> {}],
    [concerts |-> {R_Kulturhuset},
     deleted |-> {DeletionRecord(T_Cd, T_Berns, D_6)}] }

(***************************************************************************)
(* The request handler of scrape-concerts (index.ts 361-604)               *)
(***************************************************************************)
\* index.ts 10: the budget in ticks, TimeBudgetTicks unless the world states
\* how many inter-task delays the budget holds
TIME_BUDGET ==
  IF world.fixed /\ "budget" \in DOMAIN world THEN world.budget ELSE TimeBudgetTicks

\* index.ts 12-14 with <= for <
hasTimeBudgetInclusive == now - START_TIME <= TIME_BUDGET

\* index.ts 12-14
hasTimeBudget == now - START_TIME < TIME_BUDGET

\* index.ts 296 with an assignment for the push
PushResultsAssign(collected, result) == result

\* index.ts 296: all.push(...result)
PushResults(collected, result) == collected \o result

\* index.ts 343-347 without the guard
TriggerTargetsUnguarded(batch) == {batch + 1}

\* index.ts 343-347 with >= for >
TriggerTargetsOffByOne(batch) ==
  IF batch + 1 >= TOTAL_BATCHES THEN {} ELSE {batch + 1}

\* index.ts 343-347: the batch triggerNextBatch asks for, if any
TriggerTargets(batch) ==
  IF batch + 1 > TOTAL_BATCHES THEN {} ELSE {batch + 1}

\* index.ts 9 and 361: START_TIME is taken when the module is loaded; a
\* request reaches the handler at once or after the process has been up
\* for the whole budget
RequestWaits == {0, TimeBudgetTicks}

\* the values an input takes: any of S, or those the world allows
Given(field, S) == IF world.fixed THEN world[field] ELSE S

\* if (body?.chain): the JSON values that are falsy
JsTruthy(v) == v \notin {"absent", "false", "0", "null"}

\* index.ts 367 and 372
BatchOf(b) == IF ~b.bad /\ b.batch # 0 THEN b.batch ELSE 1

\* index.ts 368 and 373 without the catch of 375
ChainOfParsedOnly(b) == ~b.bad /\ JsTruthy(b.chain)

\* index.ts 368, 373 and 375: a body that does not parse sets chain
ChainOf(b) == IF b.bad THEN TRUE ELSE JsTruthy(b.chain)

\* index.ts 369 and 374
PageOf(b) == IF ~b.bad /\ b.page # 0 THEN b.page ELSE 1

\* index.ts 366-383: the body is read and the configuration checked
Receive ==
  /\ pc = "idle"
  /\ \E b \in Given("body", RequestBodies), hasKey \in Given("hasKey", BOOLEAN),
        wait \in Given("wait", RequestWaits) :
       /\ now' = now + wait
       /\ body' = b
       /\ targetBatch' = BatchOf(b)
       /\ chain' = ChainOf(b)
       /\ targetPage' = PageOf(b)
       /\ IF hasKey
          THEN pc' = "loadDeleted" /\ UNCHANGED response
          ELSE /\ pc' = "done"
               /\ response' = [NoResponse EXCEPT !.status = 500]
  /\ invocation' = invocation + 1
  /\ UNCHANGED <<START_TIME, artistImageCache, storeVars, guardVars, batchVars,
                 upsertVars, triggerLog, dedupVars, aiVars, world, prev, chainLog,
                 qualityVars, manageVars>>

\* index.ts 389-397: the deletion set is loaded; the error of a failed
\* query is not read and data is then null
LoadDeleted ==
  /\ pc = "loadDeleted"
  /\ \E queryOk \in Given("queryOk", BOOLEAN) :
       deletedKeys' = IF queryOk THEN DeletedKeySet(deleted_concerts) ELSE {}
  /\ deletedAtLoad' = deleted_concerts
  /\ IF targetBatch = 24
     THEN pc' = "discover" /\ UNCHANGED tasks
     ELSE pc' = "check" /\ tasks' = StaticTasks(targetBatch)
  /\ UNCHANGED <<processVars, storeVars, requestVars, i, all, checkedAt,
                 stopReason, taskLog, upsertVars, triggerLog, response, dedupVars, aiVars, otherVars>>

\* index.ts 533-571: batch 24 builds its task list from the listing page
\* and from the rows already stored
Discover ==
  /\ pc = "discover"
  /\ \E links \in Given("links", Listings), queryOk \in Given("queryOk", BOOLEAN) :
       tasks' = KulturhusetTasks(
                  KulturhusetPageUrls(links, ExistingArtists(concerts, queryOk),
                                      targetPage))
  /\ pc' = "check"
  /\ UNCHANGED <<processVars, storeVars, requestVars, guardVars, i, all,
                 checkedAt, stopReason, taskLog, upsertVars, triggerLog,
                 response, dedupVars, aiVars, otherVars>>

\* index.ts 287-291: the head of the scrapeBatch loop
BudgetCheck ==
  /\ pc = "check"
  /\ IF i = Len(tasks)
     THEN pc' = "afterBatch" /\ stopReason' = "completed" /\ UNCHANGED checkedAt
     ELSE IF ~hasTimeBudget
     THEN pc' = "afterBatch" /\ stopReason' = "timeExhausted" /\ UNCHANGED checkedAt
     ELSE /\ checkedAt' = now - START_TIME
          /\ pc' = IF i > 0 THEN "delay" ELSE "task"
          /\ UNCHANGED stopReason
  /\ UNCHANGED <<processVars, storeVars, requestVars, guardVars, tasks, i, all,
                 taskLog, upsertVars, triggerLog, response, dedupVars, aiVars, otherVars>>

\* index.ts 292 waiting twice as long
DelayTwice ==
  /\ pc = "delay"
  /\ now' = now + 2
  /\ pc' = "task"
  /\ UNCHANGED <<START_TIME, artistImageCache, storeVars, requestVars, guardVars,
                 batchVars, upsertVars, triggerLog, response, dedupVars, aiVars, otherVars>>

\* index.ts 292: await delay(delayMs), one tick
Delay ==
  /\ pc = "delay"
  /\ now' = now + 1
  /\ pc' = "task"
  /\ UNCHANGED <<START_TIME, artistImageCache, storeVars, requestVars, guardVars,
                 batchVars, upsertVars, triggerLog, response, dedupVars, aiVars, otherVars>>

\* index.ts 293-299: task i runs; scrapeSource turns every failure into []
RunTask ==
  /\ pc = "task"
  /\ \E resp \in Given("resp", Responses), dur \in Given("dur", TaskDurations) :
       /\ all' = PushResults(all, scrapeSource(resp, tasks[i + 1].source,
                                               tasks[i + 1].category))
       /\ taskLog' = Append(taskLog, [task |-> i + 1, resp |-> resp,
                                      out |-> scrapeSource(resp, tasks[i + 1].source,
                                                           tasks[i + 1].category),
                                      checkedAt |-> checkedAt,
                                      startedAt |-> now - START_TIME,
                                      endedAt |-> now + dur - START_TIME])
       /\ now' = now + dur
  /\ i' = i + 1
  /\ pc' = "check"
  /\ UNCHANGED <<START_TIME, artistImageCache, storeVars, requestVars, guardVars,
                 tasks, checkedAt, stopReason, upsertVars, triggerLog, response,
                 dedupVars, aiVars, otherVars>>

\* index.ts 574-577 and 403-405: upsertBatch is entered when there are results
StartUpsert ==
  /\ pc = "afterBatch"
  /\ results' = all
  /\ IF Len(all) > 0
     THEN /\ deduped' = deduplicateConcerts(all)
          /\ queue' = deduped'
          /\ processedCalls' = processedCalls + 1
          /\ pc' = "upsert"
     ELSE /\ pc' = "chain"
          /\ UNCHANGED <<deduped, queue, processedCalls>>
  /\ UNCHANGED <<processVars, storeVars, requestVars, guardVars, batchVars,
                 count, skippedDeleted, totalUpserted, upsertLog, triggerLog,
                 response, dedupVars, aiVars, otherVars>>

\* index.ts 407-439 leaving the loop at the first upsert error
UpsertOneAborting ==
  /\ pc = "upsert"
  /\ queue # <<>>
  /\ LET concert == Head(queue)
         lookup == ~Truthy(concert.image_url) /\ concert.event_type # T_comedy
     IN IF NaturalKey(concert) \in deletedKeys
        THEN /\ skippedDeleted' = skippedDeleted + 1
             /\ pc' = pc
             /\ queue' = Tail(queue)
             /\ UNCHANGED <<artistImageCache, concerts, count, upsertLog, response>>
        ELSE \E env \in IF lookup THEN Given("env", SampleImageEnvs) ELSE {"unused"},
                upsertOk \in Given("upsertOk", BOOLEAN) :
               LET looked == IF lookup
                             THEN lookupArtistImage(concert.artist, artistImageCache, env)
                             ELSE [url |-> concert.image_url, cache |-> artistImageCache]
                   row == [concert EXCEPT !.image_url = looked.url]
               IN IF looked.url = RAISED
                  THEN /\ pc' = "done"
                       /\ queue' = Tail(queue)
                       /\ response' = [NoResponse EXCEPT !.status = 500]
                       /\ UNCHANGED <<artistImageCache, concerts, count, upsertLog,
                                      skippedDeleted>>
                  ELSE /\ artistImageCache' = looked.cache
                       /\ upsertLog' = Append(upsertLog,
                            [row |-> row, key |-> NaturalKey(concert), ok |-> upsertOk,
                             lookupRaised |-> lookup
                                              /\ ~CacheHas(artistImageCache,
                                                           ImageCacheKey(concert.artist))
                                              /\ LookupTry(env) = RAISED])
                       /\ concerts' = IF upsertOk THEN UpsertRow(concerts, row)
                                      ELSE concerts
                       /\ count' = IF upsertOk THEN count + 1 ELSE count
                       /\ pc' = pc
                       /\ queue' = IF upsertOk THEN Tail(queue) ELSE <<>>
                       /\ UNCHANGED <<skippedDeleted, response>>
  /\ UNCHANGED <<now, START_TIME, deleted_concerts, requestVars, guardVars,
                 batchVars, results, processedCalls, deduped, totalUpserted, triggerLog,
                 dedupVars, aiVars, otherVars>>

\* index.ts 407-440: one record of the deduplicated list.  An exception
\* leaving lookupArtistImage would end the request in the catch of
\* index.ts 597-603
UpsertOne ==
  /\ pc = "upsert"
  /\ queue # <<>>
  /\ LET concert == Head(queue)
         lookup == ~Truthy(concert.image_url) /\ concert.event_type # T_comedy
     IN IF NaturalKey(concert) \in deletedKeys
        THEN /\ skippedDeleted' = skippedDeleted + 1
             /\ pc' = pc
             /\ UNCHANGED <<artistImageCache, concerts, count, upsertLog, response>>
        ELSE \E env \in IF lookup THEN Given("env", SampleImageEnvs) ELSE {"unused"},
                upsertOk \in Given("upsertOk", BOOLEAN) :
               LET looked == IF lookup
                             THEN lookupArtistImage(concert.artist, artistImageCache, env)
                             ELSE [url |-> concert.image_url, cache |-> artistImageCache]
                   row == [concert EXCEPT !.image_url = looked.url]
               IN IF looked.url = RAISED
                  THEN /\ pc' = "done"
                       /\ response' = [NoResponse EXCEPT !.status = 500]
                       /\ UNCHANGED <<artistImageCache, concerts, count, upsertLog,
                                      skippedDeleted>>
                  ELSE /\ artistImageCache' = looked.cache
                       /\ upsertLog' = Append(upsertLog,
                            [row |-> row, key |-> NaturalKey(concert), ok |-> upsertOk,
                             lookupRaised |-> lookup
                                              /\ ~CacheHas(artistImageCache,
                                                           ImageCacheKey(concert.artist))
                                              /\ LookupTry(env) = RAISED])
                       /\ concerts' = IF upsertOk THEN UpsertRow(concerts, row)
                                      ELSE concerts
                       /\ count' = IF upsertOk THEN count + 1 ELSE count
                       /\ pc' = pc
                       /\ UNCHANGED <<skippedDeleted, response>>
  /\ queue' = Tail(queue)
  /\ UNCHANGED <<now, START_TIME, deleted_concerts, requestVars, guardVars,
                 batchVars, results, processedCalls, deduped, totalUpserted, triggerLog,
                 dedupVars, aiVars, otherVars>>

\* index.ts 441-446: upsertBatch returns
FinishUpsert ==
  /\ pc = "upsert"
  /\ queue = <<>>
  /\ totalUpserted' = totalUpserted + count
  /\ pc' = "chain"
  /\ UNCHANGED <<processVars, storeVars, requestVars, guardVars, batchVars,
                 results, processedCalls, deduped, queue, count, skippedDeleted, upsertLog,
                 triggerLog, response, dedupVars, aiVars, otherVars>>

\* index.ts 583-585 without the await
ChainStepNoAwait ==
  /\ pc = "chain"
  /\ IF chain /\ TriggerTargets(targetBatch) # {}
     THEN triggerLog' = Append(triggerLog, [batch |-> targetBatch + 1,
                                            outcome |-> "pending"])
     ELSE UNCHANGED triggerLog
  /\ pc' = "respond"
  /\ UNCHANGED <<processVars, storeVars, requestVars, guardVars, batchVars,
                 upsertVars, response, dedupVars, aiVars, otherVars>>

\* index.ts 583-585 and 343-350: triggerNextBatch sends the RPC and awaits it
ChainStep ==
  /\ pc = "chain"
  /\ IF chain /\ TriggerTargets(targetBatch) # {}
     THEN /\ triggerLog' = Append(triggerLog, [batch |-> targetBatch + 1,
                                               outcome |-> "pending"])
          /\ pc' = "awaitTrigger"
     ELSE /\ pc' = "respond"
          /\ UNCHANGED triggerLog
  /\ UNCHANGED <<processVars, storeVars, requestVars, guardVars, batchVars,
                 upsertVars, response, dedupVars, aiVars, otherVars>>

\* index.ts 350-358 with a second attempt after a failed one
TriggerOutcomeRetry ==
  /\ pc = "awaitTrigger"
  /\ \E outcome \in Given("trigger", {"queued", "error", "threw"}) :
       IF outcome # "queued" /\ Len(triggerLog) < 2
       THEN /\ triggerLog' = Append([triggerLog EXCEPT ![Len(triggerLog)].outcome = outcome],
                                    [batch |-> targetBatch + 1, outcome |-> "pending"])
            /\ pc' = "awaitTrigger"
       ELSE /\ triggerLog' = [triggerLog EXCEPT ![Len(triggerLog)].outcome = outcome]
            /\ pc' = "respond"
  /\ UNCHANGED <<processVars, storeVars, requestVars, guardVars, batchVars,
                 upsertVars, response, dedupVars, aiVars, otherVars>>

\* index.ts 350-358: the RPC returns; an error or a throw is logged only
TriggerOutcome ==
  /\ pc = "awaitTrigger"
  /\ \E outcome \in Given("trigger", {"queued", "error", "threw"}) :
       triggerLog' = [triggerLog EXCEPT ![Len(triggerLog)].outcome = outcome]
  /\ pc' = "respond"
  /\ UNCHANGED <<processVars, storeVars, requestVars, guardVars, batchVars,
                 upsertVars, response, dedupVars, aiVars, otherVars>>

\* index.ts 587-596 answering a shortfall with a failure
RespondFailingShortfall ==
  /\ pc = "respond"
  /\ response' = IF stopReason = "completed" /\ totalUpserted = Len(results)
                 THEN [status |-> 200, success |-> TRUE, batch |-> targetBatch,
                       totalBatches |-> TOTAL_BATCHES, chain |-> chain,
                       found |-> Len(results), upserted |-> totalUpserted,
                       elapsed |-> now - START_TIME, statusNote |-> "absent"]
                 ELSE [NoResponse EXCEPT !.status = 500]
  /\ pc' = "done"
  /\ UNCHANGED <<processVars, storeVars, requestVars, guardVars, batchVars,
                 upsertVars, triggerLog, dedupVars, aiVars, otherVars>>

\* index.ts 579, 587-596
Respond ==
  /\ pc = "respond"
  /\ response' = [status |-> 200, success |-> TRUE, batch |-> targetBatch,
                  totalBatches |-> TOTAL_BATCHES, chain |-> chain,
                  found |-> Len(results), upserted |-> totalUpserted,
                  elapsed |-> now - START_TIME, statusNote |-> "absent"]
  /\ pc' = "done"
  /\ UNCHANGED <<processVars, storeVars, requestVars, guardVars, batchVars,
                 upsertVars, triggerLog, dedupVars, aiVars, otherVars>>

Init ==
  /\ HandlerIdle
  /\ DedupIdle
  /\ OtherIdle
  /\ \E s \in Scenarios : concerts = s.concerts /\ deleted_concerts = s.deleted

Next ==
  \/ Receive
  \/ LoadDeleted
  \/ Discover
  \/ BudgetCheck
  \/ Delay
  \/ RunTask
  \/ StartUpsert
  \/ UpsertOne
  \/ FinishUpsert
  \/ ChainStep
  \/ TriggerOutcome
  \/ Respond

Spec == Init /\ [][Next]_vars

(***************************************************************************)
(* Properties of the scrape-concerts handler                               *)
(***************************************************************************)
\* what the task recorded at position k of taskLog returned
TaskOutput(k) == taskLog[k].out

RECURSIVE CollectedUpTo(_)
CollectedUpTo(k) ==
  IF k = 0 THEN <<>> ELSE CollectedUpTo(k - 1) \o TaskOutput(k)

UpsertsOfKey(key) ==
  Cardinality({k \in 1..Len(upsertLog) : upsertLog[k].key = key})

Responded == pc = "done" /\ response.status = 200

FailedOutcomes == {"error", "threw"}

\* C1: for every row of deleted_concerts present when the invocation loads
\* the deletion set, no upsert is issued for a candidate with the same
\* natural key.
C1_DeletionGuard ==
  \A k \in 1..Len(upsertLog) :
    upsertLog[k].key \notin DeletedKeySet(deletedAtLoad)

\* C4 as stated: no task starts once the elapsed time has reached the
\* budget.
C4_NoTaskStartsAfterBudget ==
  \A k \in 1..Len(taskLog) : taskLog[k].startedAt < TimeBudgetTicks

\* C4 as amended: the elapsed time is checked at the head of every
\* iteration, before the inter-task delay; a task runs only if that check
\* found the elapsed time below the budget, once a check fails no further
\* task starts, and when the invocation responds every candidate of the
\* tasks that ran has gone once through deduplication, the deletion guard
\* and upsert.
C4_BudgetCheckedThenProcessed ==
  /\ \A k \in 1..Len(taskLog) : taskLog[k].checkedAt < TimeBudgetTicks
  /\ stopReason = "timeExhausted" =>
       /\ pc \notin {"check", "delay", "task"}
       /\ Len(taskLog) = i /\ i < Len(tasks)
  /\ Responded =>
       LET d == deduped
           keys == {NaturalKey(d[k]) : k \in 1..Len(d)}
       IN /\ \A k \in 1..Len(taskLog) :
               \A j \in 1..Len(TaskOutput(k)) :
                 /\ NaturalKey(TaskOutput(k)[j]) \in keys
                 /\ UpsertsOfKey(NaturalKey(TaskOutput(k)[j])) =
                      IF NaturalKey(TaskOutput(k)[j]) \in deletedKeys THEN 0 ELSE 1
          /\ processedCalls = IF Len(results) > 0 THEN 1 ELSE 0
          /\ Len(upsertLog) + skippedDeleted = Len(d)

C4_Witness ==
  /\ Responded
  /\ stopReason = "timeExhausted"
  /\ \E k \in 1..Len(taskLog) : taskLog[k].startedAt >= TimeBudgetTicks
  /\ Len(upsertLog) > 0

\* C6: a task that fails yields the empty list and the loop goes on: when
\* the loop has ended, every task of the list has run unless the time
\* budget stopped it, and the collected list is the concatenation of what
\* the tasks returned, failed tasks contributing nothing.
C6_FailureDoesNotAbort ==
  /\ \A k \in 1..Len(taskLog) :
       taskLog[k].resp.kind # "ok" => TaskOutput(k) = <<>>
  /\ pc \in {"check", "delay", "task"} => all = CollectedUpTo(Len(taskLog))
  /\ stopReason # "none" =>
       /\ all = CollectedUpTo(Len(taskLog))
       /\ Len(taskLog) = Len(tasks)
          \/ /\ stopReason = "timeExhausted"
             /\ now - START_TIME >= TimeBudgetTicks

C6_Witness ==
  /\ stopReason = "completed"
  /\ \E j, k \in 1..Len(taskLog) :
       /\ j < k
       /\ taskLog[j].resp.kind = "throws"
       /\ TaskOutput(k) # <<>>
  /\ \E j, k \in 1..Len(taskLog) :
       /\ j < k
       /\ TaskOutput(j) # <<>>
       /\ taskLog[k].resp.kind \in {"httpError", "malformed"}
       /\ Len(all) >= Len(TaskOutput(j))

\* C7: an invocation with chaining enabled that runs batch N < TOTAL_BATCHES
\* has attempted the trigger for batch N+1 exactly once when it responds,
\* whatever its tasks and upserts did; no invocation attempts two.
C7_TriggerExactlyOnce ==
  /\ Len(triggerLog) <= 1
  /\ Responded /\ chain /\ targetBatch < TOTAL_BATCHES =>
       Len(triggerLog) = 1 /\ triggerLog[1].batch = targetBatch + 1

C7_Witness ==
  /\ Responded /\ chain /\ targetBatch = TOTAL_BATCHES - 1
  /\ Len(triggerLog) = 1
  /\ \E k \in 1..Len(taskLog) : taskLog[k].resp.kind # "ok"
  /\ \E k \in 1..Len(upsertLog) : ~upsertLog[k].ok

\* C8: the last batch issues no trigger even with chaining enabled, and no
\* trigger is issued for a batch number above TOTAL_BATCHES.
C8_LastBatchTerminal ==
  /\ \A k \in 1..Len(triggerLog) : triggerLog[k].batch <= TOTAL_BATCHES
  /\ pc # "idle" /\ targetBatch = TOTAL_BATCHES => triggerLog = <<>>

C8_Witness ==
  /\ Responded /\ chain /\ targetBatch = TOTAL_BATCHES
  /\ Len(taskLog) > 0
  /\ triggerLog = <<>>

\* C9 as stated: the trigger is dispatched without waiting for the
\* persistence step, and the invocation never waits for its outcome.
C9_NonBlockingDispatch ==
  /\ pc = "upsert" /\ chain /\ TriggerTargets(targetBatch) # {} =>
       Len(triggerLog) = 1
  /\ pc # "awaitTrigger"

\* C9 as amended: the trigger for batch N+1 is issued only after the
\* persistence step of batch N has finished, and the invocation responds
\* only after the trigger call has returned its outcome.
C9_TriggerAfterPersistenceAwaited ==
  /\ Len(triggerLog) > 0 =>
       /\ pc \in {"awaitTrigger", "respond", "done"}
       /\ queue = <<>>
       /\ Len(results) > 0 =>
            /\ processedCalls = 1
            /\ Len(upsertLog) + skippedDeleted = Len(deduped)
  /\ pc = "done" =>
       \A k \in 1..Len(triggerLog) : triggerLog[k].outcome # "pending"

C9_Witness ==
  /\ Responded
  /\ Len(triggerLog) = 1 /\ triggerLog[1].outcome = "queued"
  /\ Len(upsertLog) > 0 /\ skippedDeleted > 0

\* C10 as stated: a failed trigger attempt is followed by another attempt.
C10_FailedTriggerRetried ==
  Responded /\ (\E k \in 1..Len(triggerLog) :
                  triggerLog[k].outcome \in FailedOutcomes)
    => Len(triggerLog) > 1

\* C10 as amended: a failed trigger attempt (the RPC returns an error or
\* throws) is logged and not retried: it is the only attempt of the
\* invocation, which still answers with success.
C10_FailedTriggerNotRetried ==
  \A k \in 1..Len(triggerLog) :
    triggerLog[k].outcome \in FailedOutcomes =>
      /\ Len(triggerLog) = 1
      /\ pc \in {"respond", "done"}
      /\ pc = "done" => response.status = 200 /\ response.success

C10_Witness ==
  /\ Responded /\ response.success
  /\ Len(triggerLog) = 1
  /\ triggerLog[1].outcome = "threw"

(***************************************************************************)
(* SpecDedup: deduplicateConcerts applied to every list of at most         *)
(* MaxDedupLen candidates of DedupPool.                                    *)
(***************************************************************************)
DedupPool ==
  { Concert(T_Ab, T_Nalen, D_5, T_Url1, NULL, FALSE, T_concert, S_LiveNation),
    Concert(T_abTour, T_NalenKlubb, D_5, NULL, T_Img1, TRUE, T_concert, S_LiveNation),
    Concert(T_Ab, T_Nalen, D_6early, NULL, T_Img2, FALSE, T_concert, S_LiveNation),
    Concert(T_Ab, T_Nalen, D_5, NULL, NULL, FALSE, T_concert, S_LiveNation),
    Concert(T_abTour, T_Nalen, D_5, T_Url2, T_Img1, TRUE, T_concert, S_LiveNation),
    Concert(T_Ab, T_Nalen, D_5, NULL, NULL, TRUE, T_concert, S_LiveNation),
    Concert(T_Ab, T_Berns, D_5, T_Url2, NULL, FALSE, T_concert, S_LiveNation),
    Concert(T_Cd, T_Nalen, D_6, NULL, T_Img2, FALSE, T_concert, S_LiveNation),
    Concert(T_Cd, T_Nalen, D_bad, T_Url1, NULL, FALSE, T_concert, S_LiveNation) }

SeqsUpTo(S, n) == UNION { [1..k -> S] : k \in 0..n }

InitDedup ==
  /\ HandlerIdle
  /\ OtherIdle
  /\ concerts = {} /\ deleted_concerts = {}
  /\ dIn \in SeqsUpTo(DedupPool, MaxDedupLen)
  /\ dOut = <<>>
  /\ dVariant = "none"

\* deduplicateConcerts(concerts) of scrape-concerts/index.ts
Deduplicate ==
  /\ dVariant = "none"
  /\ dOut' = deduplicateConcerts(dIn)
  /\ dVariant' = "json"
  /\ UNCHANGED <<dIn, processVars, storeVars, pc, requestVars, guardVars,
                 batchVars, upsertVars, triggerLog, response, aiVars, otherVars>>

\* deduplicateConcerts(concerts) of the AI-extraction variant
DeduplicateAI ==
  /\ dVariant = "none"
  /\ dOut' = deduplicateConcertsAI(dIn)
  /\ dVariant' = "ai"
  /\ UNCHANGED <<dIn, processVars, storeVars, pc, requestVars, guardVars,
                 batchVars, upsertVars, triggerLog, response, aiVars, otherVars>>

NextDedup == Deduplicate \/ DeduplicateAI

SpecDedup == InitDedup /\ [][NextDedup]_vars

KeysOf(cs) == { NaturalKey(cs[k]) : k \in 1..Len(cs) }

\* C2: whenever some input candidate of a key has a ticket URL (an image URL),
\* the output record of that key has a ticket URL (an image URL), in both
\* variants of deduplicateConcerts.
C2_NoPopulatedFieldLost ==
  dVariant # "none" =>
    \A k \in 1..Len(dIn) :
      \E j \in 1..Len(dOut) :
        /\ NaturalKey(dOut[j]) = NaturalKey(dIn[k])
        /\ (Truthy(dIn[k].ticket_url) => Truthy(dOut[j].ticket_url))
        /\ (Truthy(dIn[k].image_url) => Truthy(dOut[j].image_url))

\* the end-to-end scenario: ticket-only then image-only under one key, in
\* either order, merged into one record holding both
C2_Witness ==
  /\ dVariant = "json"
  /\ Len(dIn) = 2
  /\ NaturalKey(dIn[1]) = NaturalKey(dIn[2])
  /\ Truthy(dIn[1].ticket_url) /\ ~Truthy(dIn[1].image_url)
  /\ ~Truthy(dIn[2].ticket_url) /\ Truthy(dIn[2].image_url)
  /\ Len(dOut) = 1
  /\ Truthy(dOut[1].ticket_url) /\ Truthy(dOut[1].image_url)

AiTask(site, page, source, category, maxPages) ==
  [site |-> site, page |-> page, path |-> <<>>, source |-> source,
   category |-> category, maxPages |-> maxPages]

LN_TOTAL_PAGES == 50
LN_SUB_BATCH_SIZE == 10
LAST_AI_BATCH == 8
MAX_AI_ATTEMPTS == 3
MAX_IMAGE_SEARCHES == 30

\* part_002 1003-1018, 1024-1035, 1041-1057, 1063-1077, 1109-1114, 1175-1190
AiStaticTasks(batch) ==
  IF batch = 1 THEN
    << AiTask("cirkus", 1, S_Cirkus, T_concert, 10),
       AiTask("gronalund", 1, S_GronaLund, T_concert, 0),
       AiTask("sodrateatern", 1, S_SodraTeatern, T_concert, 0) >>
  ELSE IF batch = 2 THEN
    [k \in 1..8 |-> IF k <= 5 THEN AiTask("stockholmlive", k, S_StockholmLive, T_concert, 0)
                    ELSE AiTask("axs", k - 5, S_AXS, T_concert, 0)]
  ELSE IF batch = 3 THEN
    [k \in 1..11 |-> AiTask("konserthuset", k + 1, S_Konserthuset, T_concert, 0)]
  ELSE IF batch = 4 THEN
    [k \in 1..3 |-> AiTask("ticketmaster", k, S_Ticketmaster, T_concert, 0)]
  ELSE IF batch = 6 THEN
    << AiTask("nojesteatern", 1, S_Nojesteatern, T_comedy, 0),
       AiTask("hyvens", 1, S_Hyvens, T_comedy, 0),
       AiTask("livenation-comedy", 1, S_LiveNation, T_comedy, 0) >>
  ELSE IF batch = 8 THEN
    [k \in 1..5 |-> AiTask("ra", k, S_ResidentAdvisor, T_concert, 0)]
  ELSE <<>>

\* part_002 1089-1096: one Live Nation sub-batch
AiLiveNationTasks(start) ==
  LET end == IF start + LN_SUB_BATCH_SIZE - 1 < LN_TOTAL_PAGES
             THEN start + LN_SUB_BATCH_SIZE - 1 ELSE LN_TOTAL_PAGES
  IN [k \in 1..(end - start + 1) |->
        AiTask("livenation", start + k - 1, S_LiveNation, T_concert, 0)]

\* part_002 1158-1163
AiKulturhusetTasks(pageUrls) ==
  [k \in 1..Len(pageUrls) |->
     [site |-> "kulturhuset", page |-> 0, path |-> pageUrls[k].path,
      source |-> S_Kulturhuset, category |-> T_concert, maxPages |-> 0]]

\* part_002 953: targetBatch 0 stands for null
shouldRun(b) == targetBatch = 0 \/ targetBatch = b

\* part_002 794-805
MapEventAI(c, sourceName, eventCategory) ==
  Concert(OrElse(c.artist, T_Unknown),
          OrElse(c.venue, sourceName),
          IF c.date = D_missing THEN NowIso ELSE c.date,
          OrElse(c.ticket_url, NULL),
          OrElse(c.image_url, NULL),
          c.tickets_available = "true",
          eventCategory,
          sourceName)

\* part_002 768-805: what scrapeSource returns for an answer of the
\* extraction service
Answer(status, content, events) ==
  [status |-> status, content |-> content, events |-> events]

ParseAnswer(answer, sourceName, eventCategory) ==
  IF answer.status # 200 \/ answer.content # "events" THEN <<>>
  ELSE [k \in 1..Len(answer.events) |->
          MapEventAI(answer.events[k], sourceName, eventCategory)]

\* part_002 774-778 with the flag left as it is
QuotaFlagAfterIgnored(status, flag) == flag

\* part_002 774-778: aiCreditsExhausted after an answer
QuotaFlagAfter(status, flag) == IF status = 402 THEN TRUE ELSE flag

\* part_002 707 with the same wait before every retry
BackoffTicksFlat(nextAttempt) == 2

\* part_002 707: backoff of attempt * 10 s, in ticks of 5 s
BackoffTicks(nextAttempt) == 2 * nextAttempt

\* answers of the extraction service; status 0 stands for a fetch that throws
AiAnswers ==
  { Answer(0, "none", <<>>), Answer(429, "none", <<>>), Answer(402, "none", <<>>),
    Answer(500, "none", <<>>), Answer(200, "none", <<>>), Answer(200, "noJson", <<>>),
    Answer(200, "badJson", <<>>), Answer(200, "events", <<>>),
    Answer(200, "events", <<E_AbTicket>>) }

\* what the page fetch of scrapeSource gives (part_002 648-685)
PageFetches == {"throws", "httpError", "noMarkdown", "emptyPage", "ok"}

\* the requests: batch (0 when the body names none) and page
AiRequests == {<<0, 1>>, <<1, 1>>, <<5, 1>>, <<7, 1>>, <<7, 2>>, <<9, 1>>}

aiLoopVars == <<tasks, i, all, stopReason>>
aiUpsertVars == <<deduped, queue, count, totalUpserted, upsertLog>>
\* the log of page fetches and extraction calls, kept where the world asks
\* for it
Logged(entry) ==
  IF world.fixed /\ "logged" \in DOMAIN world THEN Append(taskLog, entry) ELSE taskLog

aiIdle == <<deleted_concerts, chain, guardVars, checkedAt, results,
            processedCalls, skippedDeleted, triggerLog, dedupVars, otherVars>>
aiUnused == <<aiIdle, taskLog>>

\* part_002 944-964
AiReceive ==
  /\ pc = "idle"
  /\ \E r \in AiRequests, hasKey \in BOOLEAN, lovable \in BOOLEAN,
        wait \in RequestWaits :
       /\ now' = now + wait
       /\ targetBatch' = r[1]
       /\ targetPage' = r[2]
       /\ lovableApiKey' = lovable
       /\ IF hasKey
          THEN pc' = "ai_gate" /\ UNCHANGED response
          ELSE /\ pc' = "done"
               /\ response' = [NoResponse EXCEPT !.status = 500]
  /\ UNCHANGED <<START_TIME, artistImageCache, concerts, aiLoopVars, aiUpsertVars,
                 aiFlagVars, aiCountVars, aiCursorVars, aiPageVars, aiCollectVars,
                 aiUnused>>

\* part_002 1001, 1022, 1039, 1061, 1081, 1104, 1120, 1171: the condition
\* in front of every batch block
AiGate ==
  /\ pc = "ai_gate"
  /\ curBatch <= LAST_AI_BATCH
  /\ IF shouldRun(curBatch) /\ hasTimeBudget /\ ~aiCreditsExhausted
     THEN /\ pc' = IF curBatch = 5 THEN "ai_ln"
                   ELSE IF curBatch = 7 THEN "ai_discover" ELSE "ai_check"
          /\ tasks' = AiStaticTasks(curBatch)
          /\ i' = 0 /\ all' = <<>> /\ stopReason' = "none"
          /\ lnStart' = 1
          /\ UNCHANGED curBatch
     ELSE /\ curBatch' = curBatch + 1
          /\ UNCHANGED <<pc, aiLoopVars, lnStart>>
  /\ UNCHANGED <<processVars, concerts, targetBatch, targetPage, aiUpsertVars,
                 response, aiFlagVars, lovableApiKey, aiCountVars, aiPageVars,
                 aiCollectVars, aiUnused>>

\* part_002 1086-1099: the head of the Live Nation sub-batch loop
AiLiveNationLoop ==
  /\ pc = "ai_ln"
  /\ IF lnStart <= LN_TOTAL_PAGES /\ hasTimeBudget /\ ~aiCreditsExhausted
     THEN /\ tasks' = AiLiveNationTasks(lnStart)
          /\ i' = 0 /\ all' = <<>> /\ stopReason' = "none"
          /\ pc' = "ai_check"
          /\ UNCHANGED curBatch
     ELSE /\ curBatch' = curBatch + 1
          /\ pc' = "ai_gate"
          /\ UNCHANGED aiLoopVars
  /\ UNCHANGED <<processVars, concerts, targetBatch, targetPage, aiUpsertVars,
                 response, aiFlagVars, lovableApiKey, aiCountVars, lnStart,
                 aiPageVars, aiCollectVars, aiUnused>>

\* part_002 1122-1163
AiDiscover ==
  /\ pc = "ai_discover"
  /\ \E links \in Listings, queryOk \in BOOLEAN :
       tasks' = AiKulturhusetTasks(
                  KulturhusetPageUrls(links, ExistingArtists(concerts, queryOk),
                                      targetPage))
  /\ pc' = "ai_check"
  /\ UNCHANGED <<processVars, concerts, targetBatch, targetPage, i, all,
                 stopReason, aiUpsertVars, response, aiVars, aiUnused>>

\* part_002 849-858: the head of the scrapeBatch loop
AiBudgetCheck ==
  /\ pc = "ai_check"
  /\ IF i = Len(tasks)
     THEN pc' = "ai_afterBatch" /\ stopReason' = "completed"
     ELSE IF ~hasTimeBudget
     THEN pc' = "ai_afterBatch" /\ stopReason' = "timeExhausted"
     ELSE IF aiCreditsExhausted
     THEN pc' = "ai_afterBatch" /\ stopReason' = "creditsExhausted"
     ELSE /\ pc' = IF i > 0 THEN "ai_delay" ELSE "ai_task"
          /\ UNCHANGED stopReason
  /\ UNCHANGED <<processVars, concerts, targetBatch, targetPage, tasks, i, all,
                 aiUpsertVars, response, aiVars, aiUnused>>

\* part_002 859: await delay(5000), one tick
AiDelay ==
  /\ pc = "ai_delay"
  /\ now' = now + 1
  /\ pc' = "ai_task"
  /\ UNCHANGED <<START_TIME, artistImageCache, concerts, targetBatch, targetPage,
                 aiLoopVars, aiUpsertVars, response, aiVars, aiUnused>>

\* part_002 824-841 without the test for an empty page
DeliverPastEmpty(result) ==
  LET task == tasks[i + 1]
      paginated == task.maxPages > 0
  IN IF paginated /\ pgPage < task.maxPages
     THEN /\ pgPage' = pgPage + 1
          /\ pgAll' = pgAll \o result
          /\ pc' = "ai_task"
          /\ UNCHANGED <<all, i>>
     ELSE /\ all' = all \o (IF paginated THEN pgAll \o result ELSE result)
          /\ i' = i + 1
          /\ pgPage' = 1
          /\ pgAll' = <<>>
          /\ pc' = "ai_check"

\* part_002 824-841 and 861-863: a page's result goes back to
\* scrapePaginated, which asks for the next page or returns, and the task's
\* result is pushed by scrapeBatch
Deliver(result) ==
  LET task == tasks[i + 1]
      paginated == task.maxPages > 0
  IN IF paginated /\ result # <<>> /\ pgPage < task.maxPages
     THEN /\ pgPage' = pgPage + 1
          /\ pgAll' = pgAll \o result
          /\ pc' = "ai_task"
          /\ UNCHANGED <<all, i>>
     ELSE /\ all' = all \o (IF paginated THEN pgAll \o result ELSE result)
          /\ i' = i + 1
          /\ pgPage' = 1
          /\ pgAll' = <<>>
          /\ pc' = "ai_check"

\* part_002 648-696: scrapeSource up to the extraction call
AiFetchPage ==
  /\ pc = "ai_task"
  /\ \E fetched \in PageFetches :
       /\ IF fetched = "ok" /\ ~aiCreditsExhausted /\ lovableApiKey
          THEN /\ pc' = "ai_call"
               /\ attempt' = 0
               /\ UNCHANGED <<all, i, pgPage, pgAll>>
          ELSE Deliver(<<>>) /\ UNCHANGED attempt
       /\ taskLog' = Logged([kind |-> fetched, task |-> i + 1, page |-> pgPage,
                             attempt |-> 0, status |-> 0, at |-> now, out |-> <<>>])
  /\ UNCHANGED <<processVars, concerts, targetBatch, targetPage, tasks, stopReason,
                 aiUpsertVars, response, aiFlagVars, lovableApiKey, aiCountVars,
                 aiCursorVars, aiCollectVars, aiIdle>>

\* part_002 705-805: one call of the extraction service and what follows
AiCall ==
  /\ pc = "ai_call"
  /\ \E answer \in AiAnswers :
       LET parsed == ParseAnswer(answer, tasks[i + 1].source, tasks[i + 1].category)
       IN /\ callsAfterSignal' = IF quotaSignalled THEN callsAfterSignal + 1
                                 ELSE callsAfterSignal
          /\ quotaSignalled' = (quotaSignalled \/ answer.status = 402)
          /\ aiCreditsExhausted' = QuotaFlagAfter(answer.status, aiCreditsExhausted)
          /\ collectedKeys' = collectedKeys \cup
                                {NaturalKey(parsed[k]) : k \in 1..Len(parsed)}
          /\ taskLog' = Logged([kind |-> "call", task |-> i + 1, page |-> pgPage,
                                 attempt |-> attempt, status |-> answer.status,
                                 at |-> now, out |-> parsed])
          /\ IF answer.status = 429 /\ attempt + 1 < MAX_AI_ATTEMPTS
             THEN /\ attempt' = attempt + 1
                  /\ now' = now + BackoffTicks(attempt + 1)
                  /\ UNCHANGED <<pc, all, i, pgPage, pgAll>>
             ELSE /\ Deliver(parsed)
                  /\ UNCHANGED <<attempt, now>>
  /\ UNCHANGED <<START_TIME, artistImageCache, concerts, targetBatch, targetPage,
                 tasks, stopReason, aiUpsertVars, response, lovableApiKey,
                 imageCalls, aiCursorVars, allConcerts, aiIdle>>

\* part_002 1019-1020 (and the like after every batch) with 970-971: the
\* batch's results are kept and upsertBatch is entered
AiAfterBatch ==
  /\ pc = "ai_afterBatch"
  /\ allConcerts' = allConcerts \o all
  /\ deduped' = deduplicateConcertsAI(all)
  /\ queue' = deduped'
  /\ count' = 0
  /\ pc' = "ai_upsert"
  /\ UNCHANGED <<processVars, concerts, targetBatch, targetPage, aiLoopVars,
                 totalUpserted, upsertLog, response, aiFlagVars, lovableApiKey,
                 aiCountVars, aiCursorVars, aiPageVars, collectedKeys, aiUnused>>

\* part_002 972-993: one record of the deduplicated list
AiUpsertOne ==
  /\ pc = "ai_upsert"
  /\ queue # <<>>
  /\ \E upsertOk \in BOOLEAN :
       /\ upsertLog' = Append(upsertLog, [row |-> Head(queue),
                                          key |-> NaturalKey(Head(queue)),
                                          ok |-> upsertOk])
       /\ concerts' = IF upsertOk THEN UpsertRow(concerts, Head(queue)) ELSE concerts
       /\ count' = IF upsertOk THEN count + 1 ELSE count
  /\ queue' = Tail(queue)
  /\ UNCHANGED <<processVars, pc, targetBatch, targetPage, aiLoopVars, deduped,
                 totalUpserted, response, aiVars, aiUnused>>

\* part_002 994-996, then the next sub-batch or the next batch block
AiFinishUpsert ==
  /\ pc = "ai_upsert"
  /\ queue = <<>>
  /\ totalUpserted' = totalUpserted + count
  /\ IF curBatch = 5
     THEN /\ lnStart' = lnStart + LN_SUB_BATCH_SIZE
          /\ pc' = "ai_ln"
          /\ UNCHANGED curBatch
     ELSE /\ curBatch' = curBatch + 1
          /\ pc' = "ai_gate"
          /\ UNCHANGED lnStart
  /\ UNCHANGED <<processVars, concerts, targetBatch, targetPage, aiLoopVars,
                 deduped, queue, count, upsertLog, response, aiFlagVars,
                 lovableApiKey, aiCountVars, aiPageVars, aiCollectVars, aiUnused>>

\* part_002 1209-1211: the artists of the records without an image, each
\* once, in order
RECURSIVE ArtistsWithoutImage(_, _)
ArtistsWithoutImage(records, acc) ==
  IF records = <<>> THEN acc
  ELSE LET c == Head(records)
           has == \E k \in 1..Len(acc) : acc[k] = c.artist
       IN ArtistsWithoutImage(Tail(records),
            IF ~Truthy(c.image_url) /\ ~has THEN Append(acc, c.artist) ELSE acc)

\* part_002 1203-1235: the image backfill; searchArtistImage asks the AI
\* gateway for every artist, and the rows without an image of the artists
\* it found one for are updated
AiBackfill ==
  /\ pc = "ai_gate"
  /\ curBatch > LAST_AI_BATCH
  /\ IF (shouldRun(9) \/ targetBatch = 0) /\ lovableApiKey
     THEN LET uniqueArtists ==
                ArtistsWithoutImage(deduplicateConcertsAI(allConcerts), <<>>)
              n == IF Len(uniqueArtists) < MAX_IMAGE_SEARCHES THEN Len(uniqueArtists)
                   ELSE MAX_IMAGE_SEARCHES
              artistsToSearch == {uniqueArtists[k] : k \in 1..n}
          IN /\ imageCalls' = imageCalls + n
             /\ \E found \in SUBSET artistsToSearch :
                  concerts' =
                    { IF r.artist \in found /\ ~Truthy(r.image_url)
                      THEN [r EXCEPT !.image_url = T_WikiImg] ELSE r : r \in concerts }
     ELSE UNCHANGED <<imageCalls, concerts>>
  /\ pc' = "ai_respond"
  /\ UNCHANGED <<processVars, targetBatch, targetPage, aiLoopVars, aiUpsertVars,
                 response, aiFlagVars, lovableApiKey, callsAfterSignal,
                 aiCursorVars, aiPageVars, aiCollectVars, aiUnused>>

\* part_002 1238-1247
AiRespond ==
  /\ pc = "ai_respond"
  /\ response' = [NoResponse EXCEPT !.status = 200, !.success = TRUE,
                                    !.found = Len(allConcerts),
                                    !.upserted = totalUpserted,
                                    !.elapsed = now - START_TIME,
                                    !.statusNote =
                                      IF aiCreditsExhausted THEN "creditsExhausted"
                                      ELSE IF ~hasTimeBudget THEN "timeLimit"
                                      ELSE ""]
  /\ pc' = "done"
  /\ UNCHANGED <<processVars, concerts, targetBatch, targetPage, aiLoopVars,
                 aiUpsertVars, aiVars, aiUnused>>

InitAI ==
  /\ HandlerIdle
  /\ DedupIdle
  /\ OtherIdle
  /\ concerts = {R_Kulturhuset}
  /\ deleted_concerts = {}

NextAI ==
  \/ AiReceive
  \/ AiGate
  \/ AiLiveNationLoop
  \/ AiDiscover
  \/ AiBudgetCheck
  \/ AiDelay
  \/ AiFetchPage
  \/ AiCall
  \/ AiAfterBatch
  \/ AiUpsertOne
  \/ AiFinishUpsert
  \/ AiBackfill
  \/ AiRespond

SpecAI == InitAI /\ [][NextAI]_vars

UpsertedKeys == {upsertLog[k].key : k \in 1..Len(upsertLog)}

OkUpserts == { k \in 1..Len(upsertLog) : upsertLog[k].ok }
FailedUpserts == { k \in 1..Len(upsertLog) : ~upsertLog[k].ok }
FailedTasks == { k \in 1..Len(taskLog) : taskLog[k].resp.kind # "ok" }

C13_ChainOnlyWhenTrue ==
  pc # "idle" =>
    /\ (body.bad \/ body.batch = 0) => targetBatch = 1
    /\ triggerLog # <<>> => ~body.bad /\ body.chain = "true"

\* C13, amended: a request that omits batch runs batch 1; a request whose
\* body parses and carries no chain or a false one causes no trigger; a
\* request whose body does not parse (no body) runs batch 1 with chaining
\* and triggers batch 2.
C13_DefaultBatchAndChain ==
  pc # "idle" =>
    /\ (body.bad \/ body.batch = 0) => targetBatch = 1
    /\ ~body.bad /\ body.chain \in {"absent", "false"} => triggerLog = <<>>
    /\ body.bad /\ Responded =>
         /\ Len(triggerLog) = 1
         /\ triggerLog[1].batch = 2

\* a request without a body was answered after it triggered batch 2
C13_Witness ==
  /\ Responded /\ body.bad
  /\ triggerLog # <<>> /\ triggerLog[1].batch = 2

(***************************************************************************)
(* A process that serves more than one request.  START_TIME (index.ts 9)   *)
(* and artistImageCache (index.ts 32) belong to the module, which the      *)
(* runtime loads once per process; the variables declared inside the       *)
(* handler (index.ts 361-604) are new in every request.                    *)
(***************************************************************************)
\* requests one process takes
MaxInvocations == 2

\* index.ts 361: Deno.serve hands the next request to the same handler
Reenter ==
  /\ pc = "done"
  /\ invocation < MaxInvocations
  /\ prev' = [batch |-> targetBatch, tasks |-> tasks, concerts |-> concerts]
  /\ pc' = "idle"
  /\ body' = NoBody
  /\ targetBatch' = 1 /\ targetPage' = 1 /\ chain' = FALSE
  /\ deletedKeys' = {} /\ deletedAtLoad' = {}
  /\ tasks' = <<>> /\ i' = 0 /\ all' = <<>> /\ checkedAt' = 0
  /\ stopReason' = "none" /\ taskLog' = <<>>
  /\ results' = <<>> /\ processedCalls' = 0 /\ deduped' = <<>> /\ queue' = <<>>
  /\ count' = 0 /\ skippedDeleted' = 0 /\ totalUpserted' = 0 /\ upsertLog' = <<>>
  /\ triggerLog' = <<>>
  /\ response' = NoResponse
  /\ UNCHANGED <<processVars, storeVars, dedupVars, aiVars, invocation, world, chainLog,
                 qualityVars, manageVars>>

\* a world in which every request has the same body and every service
\* gives the same answer to the same call
World(b, wait, links, resp, dur, env) ==
  [fixed |-> TRUE, body |-> {b}, hasKey |-> {TRUE}, wait |-> {wait},
   queryOk |-> {TRUE}, links |-> {links}, resp |-> {resp}, dur |-> {dur},
   env |-> {env}, upsertOk |-> {TRUE}, trigger |-> {"queued"}]

RerunBodies ==
  { Body(FALSE, 0, "absent", 0), Body(FALSE, 17, "false", 0),
    Body(FALSE, 23, "true", 0), Body(FALSE, 24, "absent", 0),
    Body(FALSE, 24, "true", 2) }

\* the second request arrives at once or one tick after the first answer
RerunWaits == {0, 1}

RerunWorlds ==
  { World(b, wait, links, resp, dur, env) :
      b \in RerunBodies, wait \in RerunWaits, links \in Listings,
      resp \in Responses, dur \in TaskDurations, env \in SampleImageEnvs }

InitRerun ==
  /\ HandlerIdle
  /\ DedupIdle
  /\ RerunIdle /\ QualityIdle /\ ManageIdle
  /\ world \in RerunWorlds
  /\ \E s \in Scenarios : concerts = s.concerts /\ deleted_concerts = s.deleted

NextRerun ==
  \/ Receive
  \/ LoadDeleted
  \/ Discover
  \/ BudgetCheck
  \/ Delay
  \/ RunTask
  \/ StartUpsert
  \/ UpsertOne
  \/ FinishUpsert
  \/ ChainStep
  \/ TriggerOutcome
  \/ Respond
  \/ Reenter

SpecRerun == InitRerun /\ [][NextRerun]_vars

\* the request has just entered the handler
Entered == pc = "loadDeleted"

\* the second request for the same batch has built its task list
SecondTaskList ==
  /\ invocation = 2
  /\ pc \in {"check", "delay", "task", "afterBatch", "upsert", "chain",
             "awaitTrigger", "respond", "done"}
  /\ targetBatch = prev.batch

\* C11: every invocation starts cold: its start timestamp is the time it
\* entered the handler and the artist-image cache is empty at entry;
\* nothing an earlier invocation of the same process wrote is visible.
C11_StartsCold ==
  Entered => START_TIME = now /\ artistImageCache = {}

\* C14 as stated: for every batch number 1..24, two invocations of the same
\* number produce the identical ordered task list, whatever the store holds.
C14_TasksFromBatchNumberAlone ==
  SecondTaskList /\ targetBatch \in 1..TOTAL_BATCHES => tasks = prev.tasks

\* C14, amended: for every batch number 1..23, two invocations of the same
\* number produce the identical ordered task list, whatever the store
\* holds and whatever earlier runs persisted.
C14_FixedBatchesFromNumberAlone ==
  SecondTaskList /\ targetBatch \in 1..(TOTAL_BATCHES - 1) => tasks = prev.tasks

\* the second of two requests for a batch below 24 built a task list while
\* the first had stored a row of that source
C14_Witness ==
  /\ SecondTaskList /\ targetBatch \in 1..(TOTAL_BATCHES - 1)
  /\ tasks # <<>> /\ tasks = prev.tasks
  /\ \E r \in prev.concerts : r.source = tasks[1].source

\* C15: running batch N twice, without chaining and with the services
\* giving the same answers, leaves concerts as running it once left it.
C15_RerunIdempotent ==
  invocation = 2 /\ Responded /\ ~chain /\ targetBatch = prev.batch
    => concerts = prev.concerts

(***************************************************************************)
(* Image enrichment under every answer of the three image services         *)
(***************************************************************************)
\* requests for batch 23 with chaining and for the Kulturhuset batch; the
\* image services fail and answer in every combination
ImageWorlds ==
  { [fixed |-> TRUE, body |-> {b}, hasKey |-> {TRUE}, wait |-> {0},
     queryOk |-> {TRUE}, links |-> Listings,
     resp |-> { Resp("throws", <<>>), Resp("ok", <<E_AbTicket>>),
                Resp("ok", <<E_CdDummyUrl, E_London>>) },
     dur |-> {0}, env |-> AllImageEnvs, upsertOk |-> BOOLEAN,
     trigger |-> {"queued"}] :
      b \in { Body(FALSE, 23, "true", 0), Body(FALSE, 24, "absent", 0) } }

InitImages ==
  /\ HandlerIdle
  /\ DedupIdle
  /\ RerunIdle /\ QualityIdle /\ ManageIdle
  /\ world \in ImageWorlds
  /\ concerts = {} /\ deleted_concerts = {}

SpecImages == InitImages /\ [][Next]_vars

RaisedLookups == { k \in 1..Len(upsertLog) : upsertLog[k].lookupRaised }

\* C18: whatever the metadata, encyclopedia and catalog services do, an
\* image lookup ends with a URL or none and never with an exception, the
\* candidate it was made for is still upserted (with a null image when the
\* lookup failed), and the request is answered as a success.
C18_ImageFailureTolerated ==
  /\ \A k \in 1..Len(upsertLog) :
       /\ upsertLog[k].row.image_url # RAISED
       /\ upsertLog[k].lookupRaised => upsertLog[k].row.image_url = NULL
  /\ pc \in {"chain", "awaitTrigger", "respond", "done"} /\ results # <<>> =>
       Len(upsertLog) + skippedDeleted = Len(deduped)
  /\ pc = "done" => response.status = 200 /\ response.success

\* a request was answered after a lookup hit a transport failure and the
\* candidate was stored without an image
C18_Witness ==
  /\ Responded
  /\ \E k \in RaisedLookups :
       /\ upsertLog[k].ok
       /\ StoredRow(upsertLog[k].row) \in concerts
       /\ upsertLog[k].row.image_url = NULL

(***************************************************************************)
(* The data quality filters applied to one extracted event                 *)
(***************************************************************************)
T_AviciiStockholm == <<"A", "v", "i", "c", "i", "i", " ", "A", "r", "e", "n", "a", ",", " ", "S", "t", "o", "c", "k", "h", "o", "l", "m">>
T_AviciiArena == <<"A", "v", "i", "c", "i", "i", " ", "A", "r", "e", "n", "a">>
T_KlubbStockholm == <<"K", "l", "u", "b", "b", " ", "K", ",", " ", "S", "t", "o", "c", "k", "h", "o", "l", "m">>
T_StoraScen == <<"S", "t", "o", "r", "a", " ", "S", "c", "e", "n">>
T_FriendsArena == <<"F", "r", "i", "e", "n", "d", "s", " ", "A", "r", "e", "n", "a">>
T_FRIENDSARENA == <<"F", "R", "I", "E", "N", "D", "S", " ", "A", "R", "E", "N", "A">>
T_Tele2Stockholm == <<"T", "e", "l", "e", "2", " ", "A", "r", "e", "n", "a", ",", " ", "S", "t", "o", "c", "k", "h", "o", "l", "m">>
T_FriendsStoraScen == <<"F", "r", "i", "e", "n", "d", "s", " ", "A", "r", "e", "n", "a", " ", "S", "t", "o", "r", "a", " ", "S", "c", "e", "n">>
T_NalenPadded == <<" ", "N", "a", "l", "e", "n", " ">>
T_NalenNoComma == <<"N", "a", "l", "e", "n", " ", "S", "t", "o", "c", "k", "h", "o", "l", "m">>
T_BernsSverige == <<"B", "e", "r", "n", "s", ",", "S", "v", "e", "r", "i", "g", "e">>
T_StrawberryArena == <<"S", "t", "r", "a", "w", "b", "e", "r", "r", "y", " ", "A", "r", "e", "n", "a">>
T_GronaLund == <<"G", "r", "o_uml", "n", "a", " ", "L", "u", "n", "d">>
T_UrlTest == <<"h", "t", "t", "p", "s", ":", "/", "/", "t", "e", "s", "t", ".", "c", "o", "m", "/", "t", "i", "c", "k", "e", "t", "s", "/", "1">>
T_UrlLovableProject == <<"h", "t", "t", "p", "s", ":", "/", "/", "x", ".", "l", "o", "v", "a", "b", "l", "e", "p", "r", "o", "j", "e", "c", "t", ".", "c", "o", "m", "/", "e">>
T_UrlLoopback == <<"h", "t", "t", "p", ":", "/", "/", "1", "2", "7", ".", "0", ".", "0", ".", "1", "/", "t">>
T_UrlShort == <<"f", "t", "p", ":", "/", "/", "a", ".", "b">>
T_UrlNoScheme == <<"t", "i", "c", "k", "e", "t", "s", " ", "h", "e", "r", "e">>
T_UrlPreview == <<"h", "t", "t", "p", "s", ":", "/", "/", "i", "d", "-", "p", "r", "e", "v", "i", "e", "w", "-", "-", "x", ".", "l", "o", "v", "a", "b", "l", "e", ".", "a", "p", "p", "/">>
T_UrlLocalhost == <<"h", "t", "t", "p", ":", "/", "/", "l", "o", "c", "a", "l", "h", "o", "s", "t", ":", "3", "0", "0", "0", "/", "x">>
T_testcom == <<"t", "e", "s", "t", ".", "c", "o", "m">>
T_lovableproject == <<"l", "o", "v", "a", "b", "l", "e", "p", "r", "o", "j", "e", "c", "t", ".", "c", "o", "m">>
T_loopback == <<"1", "2", "7", ".", "0", ".", "0", ".", "1">>

QualityVenues ==
  { T_AviciiStockholm, T_O2London, T_KlubbStockholm, T_StoraScen,
    T_FriendsArena, T_Nalen, NULL, T_FRIENDSARENA, T_Tele2Stockholm,
    T_FriendsStoraScen, T_NalenPadded, T_NalenNoComma, T_BernsSverige }
QualityUrls ==
  { T_Url1, T_UrlExample, T_UrlTest, T_UrlLovableProject, T_UrlLoopback,
    T_UrlShort, T_UrlNoScheme, T_UrlPreview, T_UrlLocalhost, <<"#">>, <<>>, NULL }
QualitySources ==
  { S_LiveNation, S_Ticketmaster, S_Cirkus, S_StockholmLive, S_Kulturhuset }

InitQuality ==
  /\ HandlerIdle
  /\ DedupIdle
  /\ RerunIdle /\ world = AnyWorld /\ ManageIdle
  /\ concerts = {} /\ deleted_concerts = {}
  /\ \E v \in QualityVenues, t \in QualityUrls, s \in QualitySources :
       qIn = <<[event |-> RawEvent(T_Ab, v, D_5, t, "true", NULL), source |-> s]>>
  /\ qOut = <<>>

\* index.ts 255-275: the backend's answer holds the event; it is mapped
\* and filtered
MapAndFilter ==
  /\ qIn # <<>> /\ qOut = <<>>
  /\ qOut' = <<scrapeSource(Resp("ok", <<qIn[1].event>>), qIn[1].source, T_concert)>>
  /\ UNCHANGED <<processVars, storeVars, pc, requestVars, guardVars, batchVars,
                 upsertVars, triggerLog, response, dedupVars, aiVars, body,
                 rerunVars, qIn, manageVars>>

NextQuality == MapAndFilter

SpecQuality == InitQuality /\ [][NextQuality]_vars

Filtered == qOut # <<>>
Kept == Filtered /\ qOut[1] # <<>>
Dropped == Filtered /\ qOut[1] = <<>>
RawVenue == OrElse(qIn[1].event.venue, qIn[1].source)

RejectedAsStated(url) ==
  \/ ~Truthy(url)
  \/ ~UrlParses(url)
  \/ \E bad \in { T_examplecom, T_testcom, T_lovableapp, T_lovableproject,
                  T_localhost, T_loopback, T_idpreview } :
       Includes(ToLowerCase(url), bad)
  \/ Len(url) < 10

\* C20: a ticket URL is rejected when it is empty or does not parse, when
\* it matches the blacklist (example.com, test.com, lovable.app,
\* lovableproject.com, localhost, 127.0.0.1, preview hosts) or when it is
\* shorter than 10 characters; a rejected URL is stored as null and the
\* candidate is kept.
C20_TicketUrlValidation ==
  Filtered /\ isStockholmVenue(qIn[1].source) =>
    /\ Kept
    /\ RejectedAsStated(qIn[1].event.ticket_url) => qOut[1][1].ticket_url = NULL
    /\ ~RejectedAsStated(qIn[1].event.ticket_url)
         => qOut[1][1].ticket_url = qIn[1].event.ticket_url

(***************************************************************************)
(* manage-concerts (unnamed/part_002 197-404): the admin function.  One    *)
(* request is followed from its arrival to its response.                   *)
(***************************************************************************)
T_manual == <<"m", "a", "n", "u", "a", "l">>

\* table user_roles (migration 20260218131359): one admin and one user
user_roles ==
  { [user_id |-> "u_admin", role |-> "admin"],
    [user_id |-> "u_plain", role |-> "user"] }

\* what the Authorization header holds: nothing, a token getClaims
\* refuses, or the token of a user; claims.sub of a valid token
AuthKinds == {"noHeader", "badToken", "u_plain", "u_admin"}

\* part_002 205-242 granting every valid token
verifyAdminAnyToken(req, roleQueryOk) ==
  IF req.auth = "noHeader" THEN "Missing authorization"
  ELSE IF req.auth = "badToken" THEN "Invalid token"
  ELSE "authorized"

\* part_002 205-242; the error of the user_roles query is not read, only
\* its data, which is null when the query failed
verifyAdmin(req, roleQueryOk) ==
  IF req.auth = "noHeader" THEN "Missing authorization"
  ELSE IF req.auth = "badToken" THEN "Invalid token"
  ELSE LET roleData == IF roleQueryOk
                       THEN { r \in user_roles :
                                r.user_id = req.auth /\ r.role = "admin" }
                       ELSE {}
       IN IF roleData = {} THEN "Not an admin" ELSE "authorized"

\* rows of concerts when the request arrives, and a row to insert
M_Row1 == StoredRow(Concert(T_Ab, T_Nalen, D_5, T_Url1, NULL, TRUE, T_concert, S_LiveNation))
M_Row2 == StoredRow(R_Kulturhuset)
M_Gone == StoredRow(Concert(T_Cd, T_Berns, D_6, NULL, NULL, FALSE, T_concert, S_Cirkus))
M_New == Concert(T_Cd, T_Nalen, D_6, NULL, NULL, FALSE, T_concert, T_manual)

\* request bodies; a row stands for its id
Request(auth, action, ids, row) ==
  [auth |-> auth, action |-> action, ids |-> ids, row |-> row]
ManageBodies ==
  { [action |-> "delete", ids |-> ids, row |-> M_New] :
      ids \in { {}, {M_Row1}, {M_Row1, M_Row2}, {M_Gone} } }
  \cup { [action |-> a, ids |-> {M_Row1}, row |-> r] :
           a \in {"update", "insert", "scrape-url", "other"}, r \in {M_New, M_Row2} }
ManageRequests ==
  { Request(auth, b.action, b.ids, b.row) : auth \in AuthKinds, b \in ManageBodies }

Reply(status, success) == [status |-> status, success |-> success]

\* a set of rows as a list, in the order the table returns them
RECURSIVE RowList(_)
RowList(rows) ==
  IF rows = {} THEN <<>>
  ELSE LET r == CHOOSE x \in rows : TRUE
       IN <<r>> \o RowList(rows \ {r})

\* part_002 303-315: the row an insert writes
ManualRow(c) ==
  StoredRow([c EXCEPT !.ticket_url = OrElse(c.ticket_url, NULL),
                     !.image_url = OrElse(c.image_url, NULL),
                     !.source = T_manual])

\* part_002 246-263: OPTIONS aside, every request is verified first and a
\* request that is not authorized is answered with 403
MReceive ==
  /\ mpc = "idle"
  /\ \E req \in ManageRequests, roleQueryOk \in BOOLEAN :
       /\ mreq' = req
       /\ IF verifyAdmin(req, roleQueryOk) # "authorized"
          THEN mpc' = "done" /\ mresp' = Reply(403, FALSE)
          ELSE /\ mresp' = mresp
               /\ mpc' = IF req.action = "delete" /\ req.ids # {} THEN "select"
                         ELSE IF req.action \in {"update", "insert", "scrape-url"}
                         THEN req.action
                         ELSE "invalid"
  /\ mBefore' = [concerts |-> concerts, deleted_concerts |-> deleted_concerts]
  /\ UNCHANGED <<processVars, storeVars, pc, requestVars, guardVars, batchVars,
                 upsertVars, triggerLog, response, dedupVars, aiVars, body,
                 rerunVars, qualityVars, toDelete, mqueue, removed>>

\* part_002 267-271: the rows are selected; the error of a failed select
\* is not read and toDelete is then null
MSelect ==
  /\ mpc = "select"
  /\ \E selectOk \in BOOLEAN :
       toDelete' = [isNull |-> ~selectOk,
                    rows |-> IF selectOk THEN RowList(concerts \cap mreq.ids)
                             ELSE <<>>]
  /\ mpc' = "delete"
  /\ UNCHANGED <<processVars, storeVars, pc, requestVars, guardVars, batchVars,
                 upsertVars, triggerLog, response, dedupVars, aiVars, body,
                 rerunVars, qualityVars, mreq, mqueue, mresp, removed, mBefore>>

\* part_002 273-277: the rows are deleted; an error is thrown to the catch
\* of part_002 397-402
MDelete ==
  /\ mpc = "delete"
  /\ \E deleteOk \in BOOLEAN :
       IF deleteOk
       THEN /\ concerts' = concerts \ mreq.ids
            /\ removed' = concerts \cap mreq.ids
            /\ IF ~toDelete.isNull /\ Len(toDelete.rows) > 0
               THEN mqueue' = toDelete.rows /\ mpc' = "record" /\ mresp' = mresp
               ELSE mqueue' = <<>> /\ mpc' = "done" /\ mresp' = Reply(200, TRUE)
       ELSE /\ mpc' = "done" /\ mresp' = Reply(500, FALSE)
            /\ UNCHANGED <<concerts, removed, mqueue>>
  /\ UNCHANGED <<processVars, deleted_concerts, pc, requestVars, guardVars,
                 batchVars, upsertVars, triggerLog, response, dedupVars, aiVars,
                 body, rerunVars, qualityVars, mreq, toDelete, mBefore>>

\* part_002 278-283: one row of toDelete is recorded.  The upsert stores
\* the record, or returns an error nobody reads, or the call of .catch on
\* the query builder throws (a builder that is no Promise has no .catch)
\* and the request ends in the catch of part_002 397-402
MRecord ==
  /\ mpc = "record"
  /\ mqueue # <<>>
  /\ \E outcome \in {"stored", "error", "catchThrows"} :
       LET c == Head(mqueue)
       IN /\ deleted_concerts' =
               IF outcome = "stored"
               THEN deleted_concerts \cup {DeletionRecord(c.artist, c.venue, c.date)}
               ELSE deleted_concerts
          /\ IF outcome = "catchThrows"
             THEN mpc' = "done" /\ mresp' = Reply(500, FALSE)
             ELSE mpc' = mpc /\ mresp' = mresp
  /\ mqueue' = Tail(mqueue)
  /\ UNCHANGED <<processVars, concerts, pc, requestVars, guardVars, batchVars,
                 upsertVars, triggerLog, response, dedupVars, aiVars, body,
                 rerunVars, qualityVars, mreq, toDelete, removed, mBefore>>

\* part_002 285-288
MDeleted ==
  /\ mpc = "record"
  /\ mqueue = <<>>
  /\ mpc' = "done"
  /\ mresp' = Reply(200, TRUE)
  /\ UNCHANGED <<processVars, storeVars, pc, requestVars, guardVars, batchVars,
                 upsertVars, triggerLog, response, dedupVars, aiVars, body,
                 rerunVars, qualityVars, mreq, toDelete, mqueue, removed, mBefore>>

\* part_002 291-299: the row with the id gets the values of the request
MUpdate ==
  /\ mpc = "update"
  /\ \E updateOk \in BOOLEAN :
       IF updateOk
       THEN /\ concerts' = { IF r \in mreq.ids
                             THEN [r EXCEPT !.tickets_available = mreq.row.tickets_available,
                                            !.ticket_url = mreq.row.ticket_url]
                             ELSE r : r \in concerts }
            /\ mresp' = Reply(200, TRUE)
       ELSE concerts' = concerts /\ mresp' = Reply(500, FALSE)
  /\ mpc' = "done"
  /\ UNCHANGED <<processVars, deleted_concerts, pc, requestVars, guardVars,
                 batchVars, upsertVars, triggerLog, response, dedupVars, aiVars,
                 body, rerunVars, qualityVars, mreq, toDelete, mqueue, removed,
                 mBefore>>

\* part_002 302-320: a row that conflicts on (artist, venue, date) makes
\* the insert fail
MInsert ==
  /\ mpc = "insert"
  /\ \E dbOk \in BOOLEAN :
       IF dbOk /\ \A r \in concerts : ConflictKey(r) # ConflictKey(mreq.row)
       THEN /\ concerts' = concerts \cup {ManualRow(mreq.row)}
            /\ mresp' = Reply(200, TRUE)
       ELSE concerts' = concerts /\ mresp' = Reply(500, FALSE)
  /\ mpc' = "done"
  /\ UNCHANGED <<processVars, deleted_concerts, pc, requestVars, guardVars,
                 batchVars, upsertVars, triggerLog, response, dedupVars, aiVars,
                 body, rerunVars, qualityVars, mreq, toDelete, mqueue, removed,
                 mBefore>>

\* part_002 323-389: the page is scraped and one event extracted; nothing
\* is written
MScrapeUrl ==
  /\ mpc = "scrape-url"
  /\ \E reply \in { Reply(500, FALSE), Reply(400, FALSE), Reply(200, TRUE) } :
       mresp' = reply
  /\ mpc' = "done"
  /\ UNCHANGED <<processVars, storeVars, pc, requestVars, guardVars, batchVars,
                 upsertVars, triggerLog, response, dedupVars, aiVars, body,
                 rerunVars, qualityVars, mreq, toDelete, mqueue, removed, mBefore>>

\* part_002 392-395
MInvalid ==
  /\ mpc = "invalid"
  /\ mresp' = Reply(400, FALSE)
  /\ mpc' = "done"
  /\ UNCHANGED <<processVars, storeVars, pc, requestVars, guardVars, batchVars,
                 upsertVars, triggerLog, response, dedupVars, aiVars, body,
                 rerunVars, qualityVars, mreq, toDelete, mqueue, removed, mBefore>>

ManageScenarios ==
  { [concerts |-> {M_Row1, M_Row2}, deleted |-> {}],
    [concerts |-> {M_Row1},
     deleted |-> {DeletionRecord(M_Gone.artist, M_Gone.venue, M_Gone.date)}] }

InitManage ==
  /\ HandlerIdle
  /\ DedupIdle
  /\ RerunIdle /\ world = AnyWorld /\ QualityIdle
  /\ ManageIdle
  /\ \E s \in ManageScenarios : concerts = s.concerts /\ deleted_concerts = s.deleted

NextManage ==
  \/ MReceive
  \/ MSelect
  \/ MDelete
  \/ MRecord
  \/ MDeleted
  \/ MUpdate
  \/ MInsert
  \/ MScrapeUrl
  \/ MInvalid

SpecManage == InitManage /\ [][NextManage]_vars

\* C16: when the delete action removes concerts, the (artist, venue, date)
\* of every removed concert is recorded in deleted_concerts: once the
\* action has finished, in success or in error, no concert has been removed
\* without its deletion record existing.
C16_RemovedAreRecorded ==
  mpc = "done" =>
    \A r \in removed :
      DeletionRecord(r.artist, r.venue, r.date) \in deleted_concerts

\* the caller is not an admin: no token, a refused token, or a user
\* without an admin row
NotAdmin ==
  \/ mreq.auth \in {"noHeader", "badToken"}
  \/ ~\E r \in user_roles : r.user_id = mreq.auth /\ r.role = "admin"

\* C17: for a request whose caller is not verified as an admin no delete,
\* update, insert or scrape-url action is performed: the request is
\* answered with 403 and concerts and deleted_concerts are left unchanged.
C17_OnlyAdminsAct ==
  mpc # "idle" /\ NotAdmin =>
    /\ mpc = "done"
    /\ mresp.status = 403 /\ ~mresp.success
    /\ concerts = mBefore.concerts
    /\ deleted_concerts = mBefore.deleted_concerts
    /\ removed = {}

\* a delete request carrying the token of a user without the admin role
\* was answered with 403
C17_Witness ==
  /\ mpc = "done" /\ mresp.status = 403
  /\ mreq.auth = "u_plain" /\ mreq.action = "delete" /\ mreq.ids = {M_Row1}
  /\ M_Row1 \in concerts

(***************************************************************************)
(* SpecNormalize: the three key normalizers of scrape-concerts applied     *)
(* once and then again to their own output, on every text of at most       *)
(* MaxTextLen characters over an alphabet that has letters in both cases,  *)
(* a Swedish letter, an accented letter the key drops, a digit, a blank    *)
(* and every separator.                                                    *)
(***************************************************************************)
NormalizeAlphabet == {"A", "b", "O_uml", "E_acute", "1", " ", "-", ":", ",", "|"}

RECURSIVE TextsUpTo(_)
TextsUpTo(n) ==
  IF n = 0 THEN {<<>>}
  ELSE LET shorter == TextsUpTo(n - 1)
       IN  shorter \cup {Append(t, c) : t \in shorter, c \in NormalizeAlphabet}

\* texts of the length real names have
T_FiveSecondsTour == <<"5", " ", "S", "e", "c", "o", "n", "d", "s", " ", "o", "f", " ", "S", "u", "m", "m", "e", "r", ":", " ", "E", "V", "E", "R", "Y", "O", "N", "E", "'", "S", " ", "A", " ", "S", "T", "A", "R", "!", " ", "W", "O", "R", "L", "D", " ", "T", "O", "U", "R">>
T_5secondsofsummer == <<"5", "s", "e", "c", "o", "n", "d", "s", "o", "f", "s", "u", "m", "m", "e", "r">>
NormalizeSamples == {T_FiveSecondsTour, T_NalenStockholm}

NormalizerNames == {"normalize", "normalizeArtist", "normalizeVenueKey"}

ApplyNormalizer(fn, s) ==
  CASE fn = "normalize" -> normalize(s)
    [] fn = "normalizeArtist" -> normalizeArtist(s)
    [] fn = "normalizeVenueKey" -> normalizeVenueKey(s)

InitNormalize ==
  /\ HandlerIdle
  /\ DedupIdle
  /\ RerunIdle /\ world = AnyWorld /\ ManageIdle
  /\ concerts = {} /\ deleted_concerts = {}
  /\ \E fn \in NormalizerNames, s \in TextsUpTo(MaxTextLen) \cup NormalizeSamples :
       qIn = <<[fn |-> fn, text |-> s]>>
  /\ qOut = <<>>

\* the normalizer applied to the text
NormalizeOnce ==
  /\ qIn # <<>> /\ qOut = <<>>
  /\ qOut' = <<ApplyNormalizer(qIn[1].fn, qIn[1].text)>>
  /\ UNCHANGED <<processVars, storeVars, pc, requestVars, guardVars, batchVars,
                 upsertVars, triggerLog, response, dedupVars, aiVars, body,
                 rerunVars, qIn, manageVars>>

\* the normalizer applied to its own result
NormalizeAgain ==
  /\ Len(qOut) = 1
  /\ qOut' = Append(qOut, ApplyNormalizer(qIn[1].fn, qOut[1]))
  /\ UNCHANGED <<processVars, storeVars, pc, requestVars, guardVars, batchVars,
                 upsertVars, triggerLog, response, dedupVars, aiVars, body,
                 rerunVars, qIn, manageVars>>

NextNormalize == NormalizeOnce \/ NormalizeAgain

SpecNormalize == InitNormalize /\ [][NextNormalize]_vars

\* C21: normalize, normalizeArtist and normalizeVenueKey are idempotent:
\* applying one of them to its own output gives that output back.
C21_NormalizersIdempotent ==
  Len(qOut) = 2 => qOut[2] = qOut[1]

\* a text the artist normalizer really changes (case, blank, accent and
\* separator), normalized twice
C21_Witness ==
  /\ Len(qOut) = 2
  /\ qIn[1].fn = "normalizeArtist"
  /\ qIn[1].text = <<"A", "E_acute", "|">>
  /\ qOut[1] = <<"a">>

(***************************************************************************)
(* Scoring of two candidates of one natural key (SpecDedup)                *)
(***************************************************************************)
\* the score as the specification states it
StatedScore(c) ==
  (IF c.ticket_url # NULL /\ c.ticket_url # <<>> THEN 2 ELSE 0)
  + (IF c.image_url # NULL /\ c.image_url # <<>> THEN 1 ELSE 0)
  + (IF c.tickets_available = TRUE THEN 1 ELSE 0)

\* the fields of a record that no merge fills in
BaseOf(c) ==
  [artist |-> c.artist, venue |-> c.venue, date |-> c.date,
   tickets_available |-> c.tickets_available, event_type |-> c.event_type,
   source |-> c.source]

MetTwice ==
  /\ dVariant = "json"
  /\ Len(dIn) = 2
  /\ NaturalKey(dIn[1]) = NaturalKey(dIn[2])

\* C22: when the second candidate of a key meets the entry held for it, the
\* record kept has the base fields of the candidate with the higher score
\* 2 (ticket URL) + 1 (image URL) + 1 (tickets available), and those of the
\* entry already held when the scores are equal.
C22_HigherScoreIsBase ==
  MetTwice =>
    /\ Len(dOut) = 1
    /\ BaseOf(dOut[1]) =
         BaseOf(IF StatedScore(dIn[2]) > StatedScore(dIn[1]) THEN dIn[2] ELSE dIn[1])

\* a tie at score 2 between a ticket-only entry and a later candidate with
\* image and availability but another spelling: the entry held stays the base
C22_Witness ==
  /\ MetTwice
  /\ StatedScore(dIn[1]) = 2 /\ StatedScore(dIn[2]) = 2
  /\ BaseOf(dIn[1]) # BaseOf(dIn[2])
  /\ Len(dOut) = 1
  /\ BaseOf(dOut[1]) = BaseOf(dIn[1])

\* a later candidate of higher score replaces the entry held
C22_WitnessReplaced ==
  /\ MetTwice
  /\ StatedScore(dIn[2]) > StatedScore(dIn[1])
  /\ BaseOf(dIn[1]) # BaseOf(dIn[2])
  /\ Len(dOut) = 1
  /\ BaseOf(dOut[1]) = BaseOf(dIn[2])

(***************************************************************************)
(* Venue alias resolution (SpecQuality)                                    *)
(***************************************************************************)
\* the alias keys the venue contains, whatever its case
AliasesIn(venue) ==
  { k \in 1..Len(VENUE_NORMALIZATION) :
      \E at \in 0..(Len(venue) - Len(VENUE_NORMALIZATION[k].key)) :
        ToLowerCase(SubSeq(venue, at + 1, at + Len(VENUE_NORMALIZATION[k].key)))
          = VENUE_NORMALIZATION[k].key }

\* a comma, optional blanks and a city or country name
IsCityTail(t) ==
  /\ t # <<>>
  /\ Head(t) = ","
  /\ TrimStart(ToLowerCase(Tail(t))) \in {T_stockholm, T_sweden, T_sverige}

CityTailsOf(venue) ==
  { n \in 1..Len(venue) : IsCityTail(SubSeq(venue, Len(venue) - n + 1, Len(venue))) }

C30_WitnessFirstKey ==
  /\ Kept
  /\ qIn[1].event.venue = T_FriendsStoraScen
  /\ qOut[1][1].venue = T_GronaLund

\* a venue without alias loses its ",Sverige" suffix
C30_WitnessSuffix ==
  /\ Kept
  /\ qIn[1].event.venue = T_BernsSverige
  /\ qOut[1][1].venue = T_Berns

(***************************************************************************)
(* Upserts of one batch                                                    *)
(***************************************************************************)
\* the deduplicated records whose key is not in the deletion set
NotSkipped == SelectSeq(deduped, LAMBDA c : NaturalKey(c) \notin deletedKeys)

\* C26: a failed upsert does not end the batch: an upsert is issued for every
\* deduplicated record that is not skipped as deleted, in order, and the
\* persisted count reported is the number of upserts that returned no error,
\* at most the deduplicated records less those skipped.
C26_FailedUpsertDoesNotAbort ==
  Responded =>
    /\ Len(upsertLog) = Len(NotSkipped)
    /\ \A k \in 1..Len(upsertLog) : upsertLog[k].key = NaturalKey(NotSkipped[k])
    /\ Len(upsertLog) + skippedDeleted = Len(deduped)
    /\ response.upserted = Cardinality(OkUpserts)
    /\ response.upserted <= Len(deduped) - skippedDeleted

\* a failed upsert followed by a successful one, one record persisted
C26_Witness ==
  /\ Responded
  /\ Len(upsertLog) = 2
  /\ ~upsertLog[1].ok /\ upsertLog[2].ok
  /\ response.upserted = 1

(***************************************************************************)
(* SpecBudget: scrapeBatch run on n tasks that take one unit each, under a *)
(* budget of B units.  A unit is one inter-task delay or MaxBudgetUnits    *)
(* of them (the delays of a whole budget then add up to less than a        *)
(* unit); the process has just been loaded or has been up for one unit     *)
(* when the request reaches scrapeBatch.                                   *)
(***************************************************************************)
BudgetWorld(units, unit, n, age) ==
  [fixed |-> TRUE, budget |-> units * unit, units |-> units, unit |-> unit,
   n |-> n, age |-> age, dur |-> {unit},
   resp |-> {Resp("ok", <<E_AbTicket>>), Resp("throws", <<>>)}]

BudgetWorlds ==
  UNION { { BudgetWorld(units, unit, n, age) :
              n \in {units + 1, 2 * units}, age \in {0, 1, unit} } :
          units \in 1..MaxBudgetUnits, unit \in {1, MaxBudgetUnits} }

InitBudget ==
  /\ DedupIdle
  /\ RerunIdle /\ QualityIdle /\ ManageIdle
  /\ world \in BudgetWorlds
  /\ concerts = {} /\ deleted_concerts = {}
  /\ START_TIME = 0 /\ now = world.age /\ artistImageCache = {}
  /\ pc = "check"
  /\ targetBatch = 1 /\ targetPage = 1 /\ chain = FALSE
  /\ deletedKeys = {} /\ deletedAtLoad = {}
  /\ tasks = [k \in 1..world.n |-> Task("cirkus", 1, S_Cirkus, T_concert)]
  /\ i = 0 /\ all = <<>> /\ checkedAt = 0
  /\ stopReason = "none" /\ taskLog = <<>>
  /\ results = <<>> /\ processedCalls = 0 /\ deduped = <<>> /\ queue = <<>>
  /\ count = 0 /\ skippedDeleted = 0 /\ totalUpserted = 0 /\ upsertLog = <<>>
  /\ triggerLog = <<>>
  /\ response = NoResponse
  /\ aiCreditsExhausted = FALSE /\ lovableApiKey = FALSE
  /\ curBatch = 1 /\ lnStart = 1 /\ pgPage = 1 /\ pgAll = <<>> /\ attempt = 0
  /\ allConcerts = <<>> /\ quotaSignalled = FALSE
  /\ callsAfterSignal = 0 /\ imageCalls = 0
  /\ collectedKeys = {}

NextBudget == BudgetCheck \/ Delay \/ RunTask

SpecBudget == InitBudget /\ [][NextBudget]_vars

BatchEnded == pc = "afterBatch"

\* C23: under a budget of B task units, n > B tasks of one unit each: exactly
\* B tasks execute and the run stops with the reason "time exhausted".
C23_ExactlyBudgetTasksRun ==
  BatchEnded => i = world.units /\ stopReason = "timeExhausted"

\* what the loop does on a process loaded at the request, when the delays
\* of the whole budget are shorter than a unit
C23_ColdStartShortDelay ==
  BatchEnded /\ world.age = 0 /\ world.units <= world.unit =>
    i = world.units /\ stopReason = "timeExhausted"

\* the case of budget 5 and 10 tasks on a process that was loaded one unit
\* before the request: four tasks execute
C23_WarmProcess ==
  /\ BatchEnded
  /\ world.units = 5 /\ world.n = 10 /\ world.unit = MaxBudgetUnits /\ world.age = world.unit
  /\ i = 4 /\ stopReason = "timeExhausted"

(***************************************************************************)
(* SpecPages: scrapeBatch of the AI-extraction variant run on a paginated  *)
(* task of at most MaxPages pages followed by a single-page task, with     *)
(* every page fetch and every extraction call logged.                      *)
(***************************************************************************)
PagesWorld(maxPages) ==
  [fixed |-> TRUE, logged |-> TRUE, budget |-> 8 * TimeBudgetTicks, maxPages |-> maxPages]

InitPages ==
  /\ DedupIdle
  /\ RerunIdle /\ QualityIdle /\ ManageIdle
  /\ world \in { PagesWorld(m) : m \in 1..MaxPages }
  /\ concerts = {} /\ deleted_concerts = {}
  /\ START_TIME = 0 /\ now = 0 /\ artistImageCache = {}
  /\ pc = "ai_check"
  /\ targetBatch = 1 /\ targetPage = 1 /\ chain = FALSE
  /\ deletedKeys = {} /\ deletedAtLoad = {}
  /\ tasks = << AiTask("cirkus", 1, S_Cirkus, T_concert, world.maxPages),
                AiTask("gronalund", 1, S_GronaLund, T_concert, 0) >>
  /\ i = 0 /\ all = <<>> /\ checkedAt = 0
  /\ stopReason = "none" /\ taskLog = <<>>
  /\ results = <<>> /\ processedCalls = 0 /\ deduped = <<>> /\ queue = <<>>
  /\ count = 0 /\ skippedDeleted = 0 /\ totalUpserted = 0 /\ upsertLog = <<>>
  /\ triggerLog = <<>>
  /\ response = NoResponse
  /\ aiCreditsExhausted = FALSE /\ lovableApiKey = TRUE
  /\ curBatch = 1 /\ lnStart = 1 /\ pgPage = 1 /\ pgAll = <<>> /\ attempt = 0
  /\ allConcerts = <<>> /\ quotaSignalled = FALSE
  /\ callsAfterSignal = 0 /\ imageCalls = 0
  /\ collectedKeys = {}

NextPages == AiBudgetCheck \/ AiDelay \/ AiFetchPage \/ AiCall

SpecPages == InitPages /\ [][NextPages]_vars

CallsOf(t, p) ==
  SelectSeq(taskLog, LAMBDA e : e.kind = "call" /\ e.task = t /\ e.page = p)

LoggedPages == { <<taskLog[k].task, taskLog[k].page>> : k \in 1..Len(taskLog) }

\* the page is done: the log has gone on to another page, or the loop has
\* gone on
PageDone(t, p) ==
  \/ \E k \in 1..Len(taskLog) : taskLog[k].task > t \/ (taskLog[k].task = t /\ taskLog[k].page > p)
  \/ pc # "ai_call"

\* C24: for one page the extraction service is called at most 3 times; a
\* call is repeated only after an answer 429, 10 s (2 ticks) after the first
\* call and 20 s (4 ticks) after the second; an answer 200, 402, any other
\* status or a failed request is the last call for the page, and after
\* three answers 429 the page yields no candidate.
C24_RetryPolicy ==
  \A tp \in LoggedPages :
    LET calls == CallsOf(tp[1], tp[2])
    IN /\ Len(calls) <= 3
       /\ \A k \in 1..Len(calls) :
            /\ calls[k].attempt = k - 1
            /\ k > 1 => /\ calls[k - 1].status = 429
                        /\ calls[k].at = calls[k - 1].at + 2 * (k - 1)
            /\ (calls[k].status # 429 /\ PageDone(tp[1], tp[2])) => k = Len(calls)
            /\ (calls[k].status = 429 /\ k < 3 /\ PageDone(tp[1], tp[2])) => k < Len(calls)
       /\ (Len(calls) = 3 /\ calls[3].status = 429) => calls[3].out = <<>>

\* three answers 429 for the first page, 10 s and 20 s apart, and the batch
\* goes on with nothing from that page
C24_Witness ==
  /\ Len(taskLog) >= 5
  /\ taskLog[1].kind = "ok"
  /\ \A k \in 2..4 : taskLog[k].kind = "call" /\ taskLog[k].status = 429
                     /\ taskLog[k].task = 1 /\ taskLog[k].page = 1
  /\ taskLog[3].at = taskLog[2].at + 2
  /\ taskLog[4].at = taskLog[3].at + 4
  /\ taskLog[5].task = 2
  /\ all = <<>>

\* the entry ends its page: a fetch that gave no usable content, or a call
\* that is not repeated
EndsPage(e) ==
  /\ e.kind # "ok"
  /\ ~(e.kind = "call" /\ e.status = 429 /\ e.attempt + 1 < MAX_AI_ATTEMPTS)

PageLimit(t) == IF tasks[t].maxPages > 0 THEN tasks[t].maxPages ELSE 1

\* C27: a page holding the no-results sentinel yields nothing and no
\* extraction call; scrapePaginated asks for pages 1, 2, ... in order, asks
\* for the next page only after a page that yielded candidates, stops at
\* the first page that yields none, and asks for at most maxPages pages.
C27_PaginationStopsOnEmptyPage ==
  /\ \A k \in 1..Len(taskLog) :
       /\ taskLog[k].page <= PageLimit(taskLog[k].task)
       /\ taskLog[k].kind = "emptyPage" =>
            /\ CallsOf(taskLog[k].task, taskLog[k].page) = <<>>
            /\ taskLog[k].task <= i
  /\ Len(taskLog) > 0 => taskLog[1].task = 1 /\ taskLog[1].page = 1
  /\ \A k \in 1..(Len(taskLog) - 1) :
       LET e == taskLog[k]
           f == taskLog[k + 1]
       IN /\ f.task = e.task => f.page \in {e.page, e.page + 1}
          /\ (f.task = e.task /\ f.page = e.page + 1) => EndsPage(e) /\ e.out # <<>>
          /\ (f.task = e.task /\ f.page = e.page) => ~EndsPage(e)
          /\ f.task # e.task => f.task = e.task + 1 /\ f.page = 1 /\ EndsPage(e)
          /\ (EndsPage(e) /\ e.out = <<>>) => f.task # e.task

\* page 1 yields a candidate, page 2 holds the sentinel: no page 3 is asked
\* for although the limit is 3, and the batch goes on with the next task
C27_Witness ==
  /\ world.maxPages = 3
  /\ Len(taskLog) = 4
  /\ taskLog[1].kind = "ok" /\ taskLog[1].page = 1
  /\ taskLog[2].kind = "call" /\ taskLog[2].out # <<>>
  /\ taskLog[3].kind = "emptyPage" /\ taskLog[3].task = 1 /\ taskLog[3].page = 2
  /\ taskLog[4].task = 2
  /\ Len(all) = 1

\* every page yields a candidate: the task ends with page maxPages
C27_WitnessLimit ==
  /\ world.maxPages = 2
  /\ Len(taskLog) = 5
  /\ taskLog[4].kind = "call" /\ taskLog[4].page = 2 /\ taskLog[4].out # <<>>
  /\ taskLog[5].task = 2

(***************************************************************************)
(* SpecSettled: the first handler (part_003 218-297), which hands every    *)
(* scrape of its list to Promise.allSettled at once and reads the results  *)
(* when all have settled.  The list is cut to its first MaxSettledTasks    *)
(* entries; the paginated Cirkus scrape counts as one task.                *)
(***************************************************************************)
\* part_003 274-284: the head of the list
SettledTaskList ==
  << AiTask("cirkus", 1, S_Cirkus, T_concert, 10),
     AiTask("gronalund", 1, S_GronaLund, T_concert, 0),
     AiTask("kulturhuset", 1, S_Kulturhuset, T_concert, 0),
     AiTask("stockholmlive", 1, S_StockholmLive, T_concert, 0) >>

SettledAnswers ==
  { Answer(0, "none", <<>>), Answer(200, "events", <<>>),
    Answer(200, "events", <<E_AbTicket>>) }

settledUnused == <<START_TIME, artistImageCache, storeVars, requestVars, guardVars,
                   tasks, i, checkedAt, stopReason, upsertVars, triggerLog, response,
                   dedupVars, aiVars, otherVars>>

InitSettled ==
  /\ HandlerIdle
  /\ DedupIdle
  /\ OtherIdle
  /\ concerts = {} /\ deleted_concerts = {}

\* part_003 218-232: the request is taken and the list is built
SettledReceive ==
  /\ pc = "idle"
  /\ tasks' = SubSeq(SettledTaskList, 1, MaxSettledTasks)
  /\ pc' = "settled_start"
  /\ UNCHANGED <<now, START_TIME, artistImageCache, storeVars, requestVars, guardVars,
                 i, all, checkedAt, stopReason, taskLog, upsertVars, triggerLog,
                 response, dedupVars, aiVars, otherVars>>

\* part_003 274-284: every element of the array is a call, so every scrape
\* has sent its request before allSettled is awaited
SettledStartAll ==
  /\ pc = "settled_start"
  /\ taskLog' = [k \in 1..Len(tasks) |->
                   [task |-> k, out |-> <<>>, startedAt |-> now - START_TIME,
                    endedAt |-> -1]]
  /\ pc' = "settled_wait"
  /\ UNCHANGED <<now, all, settledUnused>>

\* one of the scrapes in flight returns (part_003 22-158)
SettledFinishOne ==
  /\ pc = "settled_wait"
  /\ \E k \in 1..Len(taskLog), answer \in SettledAnswers, took \in {0, 1} :
       /\ taskLog[k].endedAt = -1
       /\ now' = now + took
       /\ taskLog' = [taskLog EXCEPT
                        ![k].endedAt = now + took - START_TIME,
                        ![k].out = ParseAnswer(answer, tasks[k].source,
                                               tasks[k].category)]
  /\ UNCHANGED <<pc, all, settledUnused>>

RECURSIVE OutsUpTo(_)
OutsUpTo(k) == IF k = 0 THEN <<>> ELSE OutsUpTo(k - 1) \o taskLog[k].out

\* part_003 293-297: all have settled; the fulfilled values are pushed in
\* the order of the array
SettledCollect ==
  /\ pc = "settled_wait"
  /\ \A k \in 1..Len(taskLog) : taskLog[k].endedAt # -1
  /\ all' = OutsUpTo(Len(taskLog))
  /\ pc' = "settled_done"
  /\ UNCHANGED <<now, taskLog, settledUnused>>

NextSettled == SettledReceive \/ SettledStartAll \/ SettledFinishOne \/ SettledCollect

SpecSettled == InitSettled /\ [][NextSettled]_vars

InFlight == { k \in 1..Len(taskLog) : taskLog[k].endedAt = -1 }

\* C25: the tasks of a batch run one at a time: at most one task is in
\* flight, task k + 1 starts no earlier than one inter-task delay (one tick)
\* after task k has finished, and the collected results are the task
\* results in task-list order.
C25_OneTaskAtATime ==
  /\ Cardinality(InFlight) <= 1
  /\ \A k \in 1..Len(taskLog) : taskLog[k].task = k
  /\ \A k \in 1..(Len(taskLog) - 1) :
       /\ taskLog[k].endedAt # -1
       /\ taskLog[k + 1].startedAt >= taskLog[k].endedAt + 1
  /\ pc \in {"afterBatch", "settled_done"} => all = OutsUpTo(Len(taskLog))

\* scrapeBatch of the deployed function: the second task ran after the
\* first had finished and the delay had passed
C25_SequentialBatch ==
  /\ pc = "afterBatch"
  /\ Len(taskLog) = 2
  /\ taskLog[2].startedAt = taskLog[1].endedAt + 1
  /\ taskLog[1].endedAt > taskLog[1].startedAt
  /\ Len(all) >= 2

(***************************************************************************)
(* SpecLookup: the image lookups of one invocation, request by request.    *)
(* The world names the function: "scrape-concerts" for the lookups of      *)
(* upsertBatch (index.ts 34-96, 415-418), "fetch-images" for the loop of   *)
(* fetch-images/index.ts 27-78, 107-121.  taskLog is the list of requests  *)
(* and delay steps, results the list of lookups with what the services     *)
(* answered.                                                               *)
(***************************************************************************)
\* the requests of one lookup that is not served from the cache, in order;
\* spaced is TRUE where delay(1100) stands between the two MusicBrainz
\* requests (fetch-images/index.ts 41)
LookupRequests(env, spaced) ==
  <<"musicbrainz">> \o
  (IF env.mb # "found" THEN <<>>
   ELSE (IF spaced THEN <<"delay">> ELSE <<>>) \o <<"musicbrainz">> \o
        (IF env.rel = "throws" THEN <<>>
         ELSE IF env.rel = "wikidata"
              THEN <<"wikidata">> \o
                   (IF env.wd \in {"throws", "image"} THEN <<>> ELSE <<"itunes">>)
              ELSE <<"itunes">>))

LookupQueues == { <<T_Ab, T_Cd>>, <<T_Ab, T_abTour>> }

RequestEntries(n, requests) ==
  [k \in 1..Len(requests) |-> [lookup |-> n, what |-> requests[k]]]

InitLookup ==
  /\ DedupIdle
  /\ RerunIdle /\ QualityIdle /\ ManageIdle
  /\ world \in { [fixed |-> TRUE, function |-> f] : f \in {"scrape-concerts", "fetch-images"} }
  /\ concerts = {} /\ deleted_concerts = {}
  /\ START_TIME = 0 /\ now = 0 /\ artistImageCache = {}
  /\ pc = "lookup"
  /\ targetBatch = 1 /\ targetPage = 1 /\ chain = FALSE
  /\ deletedKeys = {} /\ deletedAtLoad = {}
  /\ tasks = <<>> /\ i = 0 /\ all = <<>> /\ checkedAt = 0
  /\ stopReason = "none" /\ taskLog = <<>>
  /\ results = <<>> /\ processedCalls = 0 /\ deduped = <<>>
  /\ queue \in LookupQueues
  /\ count = 0 /\ skippedDeleted = 0 /\ totalUpserted = 0 /\ upsertLog = <<>>
  /\ triggerLog = <<>>
  /\ response = NoResponse
  /\ aiCreditsExhausted = FALSE /\ lovableApiKey = FALSE
  /\ curBatch = 1 /\ lnStart = 1 /\ pgPage = 1 /\ pgAll = <<>> /\ attempt = 0
  /\ allConcerts = <<>> /\ quotaSignalled = FALSE
  /\ callsAfterSignal = 0 /\ imageCalls = 0
  /\ collectedKeys = {}

lookupUnused == <<now, START_TIME, storeVars, pc, requestVars, guardVars, tasks, i,
                  all, checkedAt, stopReason, processedCalls, deduped, count,
                  skippedDeleted, totalUpserted, upsertLog, triggerLog, response,
                  dedupVars, aiVars, otherVars>>

\* index.ts 415-418 with 34-96: the lookup for the next record of upsertBatch
ScrapeLookup ==
  /\ pc = "lookup" /\ world.function = "scrape-concerts"
  /\ queue # <<>>
  /\ \E env \in AllImageEnvs :
       LET artist == Head(queue)
           cached == CacheHas(artistImageCache, ImageCacheKey(artist))
           looked == lookupArtistImage(artist, artistImageCache, env)
           n == Len(results) + 1
       IN /\ artistImageCache' = looked.cache
          /\ results' = Append(results, [env |-> env, cached |-> cached,
                                         url |-> looked.url])
          /\ taskLog' = taskLog \o
               (IF cached THEN <<>> ELSE RequestEntries(n, LookupRequests(env, FALSE)))
  /\ queue' = Tail(queue)
  /\ UNCHANGED lookupUnused

\* fetch-images/index.ts 111-121 with 27-78: one concert of the loop
FetchImagesLookup ==
  /\ pc = "lookup" /\ world.function = "fetch-images"
  /\ queue # <<>>
  /\ \E env \in AllImageEnvs :
       LET artist == Head(queue)
           key == ImageCacheKey(artist)
           cached == CacheHas(artistImageCache, key)
           url == IF cached THEN CacheGet(artistImageCache, key) ELSE LookupResult(env)
           n == Len(results) + 1
       IN /\ artistImageCache' = IF cached THEN artistImageCache
                                 ELSE artistImageCache \cup {<<key, url>>}
          /\ results' = Append(results, [env |-> env, cached |-> cached, url |-> url])
          /\ taskLog' = taskLog \o
               (IF cached THEN <<>>
                ELSE RequestEntries(n, (IF artistImageCache # {} THEN <<"delay">>
                                        ELSE <<>>) \o LookupRequests(env, TRUE)))
  /\ queue' = Tail(queue)
  /\ UNCHANGED lookupUnused

NextLookup == ScrapeLookup \/ FetchImagesLookup

SpecLookup == InitLookup /\ [][NextLookup]_vars

RequestsTo(n, what) ==
  { k \in 1..Len(taskLog) : taskLog[k].lookup = n /\ taskLog[k].what = what }

StructuredUrl(env) == env.mb = "found" /\ env.rel = "wikidata" /\ env.wd = "image"

\* C28: in every lookup that goes to the services, the catalog search
\* (iTunes) is attempted whenever the structured lookup (MusicBrainz,
\* Wikidata) yields no URL, be it for no matching artist, no linked entity,
\* no image claim or a transport failure, and only then, after the
\* structured requests.
C28_FallbackChain ==
  \A n \in 1..Len(results) :
    ~results[n].cached =>
      /\ ~StructuredUrl(results[n].env) => RequestsTo(n, "itunes") # {}
      /\ StructuredUrl(results[n].env) => RequestsTo(n, "itunes") = {}
      /\ \A k \in RequestsTo(n, "itunes") :
           \A j \in RequestsTo(n, "musicbrainz") \cup RequestsTo(n, "wikidata") : j < k

\* what the code does: the catalog search is attempted exactly when the
\* artist was found, the relations were fetched, and no Wikidata image came
\* back from a request that answered
C28_FallbackAfterAnsweredStages ==
  \A n \in 1..Len(results) :
    ~results[n].cached =>
      LET env == results[n].env
      IN RequestsTo(n, "itunes") # {} <=>
           /\ env.mb = "found" /\ env.rel # "throws"
           /\ env.rel = "wikidata" => env.wd = "none"

\* no artist matches while the catalog has art: the lookup ends without a
\* catalog search and without an image
C28_NoArtistNoFallback ==
  /\ Len(results) = 1 /\ ~results[1].cached
  /\ results[1].env.mb = "noArtist" /\ results[1].env.itunes = "art"
  /\ RequestsTo(1, "itunes") = {}
  /\ results[1].url = NULL

MusicBrainzRequests == { k \in 1..Len(taskLog) : taskLog[k].what = "musicbrainz" }

\* C29: between any two consecutive requests to MusicBrainz of one
\* invocation, within a lookup or across lookups, there is a delay step.
C29_MusicBrainzSpaced ==
  \A j, k \in MusicBrainzRequests :
    j < k => \E m \in (j + 1)..(k - 1) : taskLog[m].what = "delay"

\* the same for the loop of fetch-images alone
C29_FetchImagesSpaced ==
  world.function = "fetch-images" => C29_MusicBrainzSpaced

\* two lookups of fetch-images that found their artists: four requests,
\* three delays between them
C29_FetchImagesWitness ==
  /\ world.function = "fetch-images"
  /\ Cardinality(MusicBrainzRequests) = 4
  /\ Cardinality({k \in 1..Len(taskLog) : taskLog[k].what = "delay"}) = 3

(***************************************************************************)
(* SpecChain: a chain of scrape-concerts invocations.  The request handler *)
(* of Spec runs to its answer; the request trigger_scrape_batch queued is  *)
(* then delivered and starts the next invocation, in the same process or   *)
(* in a new one.                                                           *)
(***************************************************************************)
\* the batch numbers the first request of a chain names (0: none)
ChainStarts == {-2, 0, 1, 17, 24, 25}

\* TIME_BUDGET_MS in units of the delay between two tasks (index.ts 10, 283)
ChainBudgetTicks == 240000 \div 1500

ChainWorld(start, warm) ==
  [fixed |-> TRUE, body |-> {Body(FALSE, start, "true", 0)}, hasKey |-> {TRUE},
   wait |-> {0}, queryOk |-> {TRUE}, links |-> {<<L_listing, L_ab>>},
   resp |-> {Resp("ok", <<E_AbTicket>>)}, dur |-> {0},
   env |-> {ImageEnv("found", "wikidata", "image", "none")},
   upsertOk |-> {TRUE}, trigger |-> {"queued", "error", "threw"},
   budget |-> ChainBudgetTicks, warm |-> warm, start |-> start]

InitChain ==
  /\ HandlerIdle
  /\ DedupIdle
  /\ RerunIdle /\ QualityIdle /\ ManageIdle
  /\ \E start \in ChainStarts, warm \in BOOLEAN : world = ChainWorld(start, warm)
  /\ concerts = {} /\ deleted_concerts = {}

\* migration 20260224012655 6-28: net.http_post sends the body
\* {batch: batch_num, chain: true} to scrape-concerts
TriggerBody(batch_num) == Body(FALSE, batch_num, "true", 0)

\* the post sent without the chain field
ChainDeliverUnchained ==
  /\ pc = "done"
  /\ triggerLog # <<>> /\ triggerLog[Len(triggerLog)].outcome = "queued"
  /\ chainLog' = Append(chainLog, [batch |-> targetBatch, tasks |-> tasks,
                                   triggered |-> triggerLog[Len(triggerLog)].batch])
  /\ world' = [world EXCEPT
                 !.body = {Body(FALSE, triggerLog[Len(triggerLog)].batch, "absent", 0)}]
  /\ START_TIME' = IF world.warm THEN START_TIME ELSE now
  /\ artistImageCache' = IF world.warm THEN artistImageCache ELSE {}
  /\ invocation' = IF world.warm THEN invocation ELSE 0
  /\ pc' = "idle"
  /\ body' = NoBody
  /\ targetBatch' = 1 /\ targetPage' = 1 /\ chain' = FALSE
  /\ deletedKeys' = {} /\ deletedAtLoad' = {}
  /\ tasks' = <<>> /\ i' = 0 /\ all' = <<>> /\ checkedAt' = 0
  /\ stopReason' = "none" /\ taskLog' = <<>>
  /\ results' = <<>> /\ processedCalls' = 0 /\ deduped' = <<>> /\ queue' = <<>>
  /\ count' = 0 /\ skippedDeleted' = 0 /\ totalUpserted' = 0 /\ upsertLog' = <<>>
  /\ triggerLog' = <<>>
  /\ response' = NoResponse
  /\ UNCHANGED <<now, storeVars, dedupVars, aiVars, prev, qualityVars, manageVars>>

\* migration 20260224012655 6-28 and index.ts 361-375: the request queued
\* by trigger_scrape_batch reaches scrape-concerts, which starts a new
\* invocation with fresh locals
ChainDeliver ==
  /\ pc = "done"
  /\ triggerLog # <<>> /\ triggerLog[Len(triggerLog)].outcome = "queued"
  /\ chainLog' = Append(chainLog, [batch |-> targetBatch, tasks |-> tasks,
                                   triggered |-> triggerLog[Len(triggerLog)].batch])
  /\ world' = [world EXCEPT
                 !.body = {TriggerBody(triggerLog[Len(triggerLog)].batch)}]
  /\ START_TIME' = IF world.warm THEN START_TIME ELSE now
  /\ artistImageCache' = IF world.warm THEN artistImageCache ELSE {}
  /\ invocation' = IF world.warm THEN invocation ELSE 0
  /\ pc' = "idle"
  /\ body' = NoBody
  /\ targetBatch' = 1 /\ targetPage' = 1 /\ chain' = FALSE
  /\ deletedKeys' = {} /\ deletedAtLoad' = {}
  /\ tasks' = <<>> /\ i' = 0 /\ all' = <<>> /\ checkedAt' = 0
  /\ stopReason' = "none" /\ taskLog' = <<>>
  /\ results' = <<>> /\ processedCalls' = 0 /\ deduped' = <<>> /\ queue' = <<>>
  /\ count' = 0 /\ skippedDeleted' = 0 /\ totalUpserted' = 0 /\ upsertLog' = <<>>
  /\ triggerLog' = <<>>
  /\ response' = NoResponse
  /\ UNCHANGED <<now, storeVars, dedupVars, aiVars, prev, qualityVars, manageVars>>

NextChain ==
  \/ Receive
  \/ LoadDeleted
  \/ Discover
  \/ BudgetCheck
  \/ Delay
  \/ RunTask
  \/ StartUpsert
  \/ UpsertOne
  \/ FinishUpsert
  \/ ChainStep
  \/ TriggerOutcome
  \/ Respond
  \/ ChainDeliver

\* every invocation completes and every queued request is delivered: a step
\* that can be taken is taken in the end, and the handler does not wait for
\* ever for a task (RunTask), for upsertBatch to begin (StartUpsert) or for
\* the upsert of a record (UpsertOne)
ChainFairness ==
  /\ WF_vars(\/ Receive \/ LoadDeleted \/ Discover \/ BudgetCheck \/ Delay
             \/ FinishUpsert \/ ChainStep \/ TriggerOutcome \/ Respond
             \/ ChainDeliver)
  /\ []<>(/\ pc \notin {"task", "afterBatch"}
          /\ pc = "upsert" => queue = <<>>)

SpecChain == InitChain /\ [][NextChain]_vars /\ ChainFairness

\* the batches the chain's invocations ran, oldest first
BatchesRun ==
  [k \in 1..Len(chainLog) |-> chainLog[k].batch]
    \o (IF pc = "idle" THEN <<>> ELSE <<targetBatch>>)

\* the chain has ended: the last invocation answered and queued nothing
ChainEnded ==
  pc = "done" /\ (triggerLog = <<>> \/ triggerLog[Len(triggerLog)].outcome # "queued")

\* every trigger the chain issued was queued
AllDelivered == triggerLog = <<>> \/ triggerLog[Len(triggerLog)].outcome = "queued"

\* index.ts 452: the batches that scrape Live Nation
LiveNationBatches == 1..17

\* the invocations of the chain that ran a Live Nation batch
LiveNationEntries == {k \in 1..Len(chainLog) : chainLog[k].batch \in LiveNationBatches}

\* the pages in the task list of the chain's k-th invocation
PagesOf(k) == {chainLog[k].tasks[j].page : j \in 1..Len(chainLog[k].tasks)}

StartedAtOne == world.fixed /\ "start" \in DOMAIN world /\ world.start = 1

\* the invocations a chain can take before it reaches batch 1, plus one
\* for each batch
MostInvocations ==
  TOTAL_BATCHES + (IF world.start < 0 THEN 0 - world.start ELSE 0)

\* C37: a chain started at batch 1 with chaining enabled, every trigger
\* delivered and every invocation completing, runs batches 1..24 each
\* exactly once in increasing order and then stops; a chain started from
\* any batch issues finitely many triggers and comes to an end.
C37_ChainProgress ==
  <>(/\ ChainEnded
     /\ Len(chainLog) < MostInvocations
     /\ StartedAtOne /\ triggerLog = <<>>
          => BatchesRun = [k \in 1..TOTAL_BATCHES |-> k])

\* the chain from batch 1 has run its 24th invocation, batch 24, which
\* queued nothing
C37_Witness ==
  /\ StartedAtOne /\ ChainEnded /\ triggerLog = <<>>
  /\ Len(chainLog) = 23 /\ targetBatch = TOTAL_BATCHES

(***************************************************************************)
(* The budget check and the start of a task (index.ts 282-302)             *)
(***************************************************************************)
\* C36 as stated: every task starts at an elapsed time strictly below the
\* budget, and nothing separates the budget check from the start of the
\* task.
C36_TaskStartsBelowBudget ==
  \A k \in 1..Len(taskLog) :
    /\ taskLog[k].startedAt < TIME_BUDGET
    /\ taskLog[k].startedAt = taskLog[k].checkedAt

\* C36 as amended: every task starts after a budget check that saw an
\* elapsed time strictly below the budget; the first task of a batch starts
\* at once, every later task starts one inter-task delay after its check,
\* so a task starts less than one delay past the budget.
C36_TaskStartsWithinOneDelay ==
  \A k \in 1..Len(taskLog) :
    /\ taskLog[k].checkedAt < TIME_BUDGET
    /\ taskLog[k].startedAt =
         taskLog[k].checkedAt + (IF taskLog[k].task = 1 THEN 0 ELSE 1)
    /\ taskLog[k].startedAt < TIME_BUDGET + 1

\* a later task of the batch passed its check one tick below the budget and
\* started when the budget was reached
C36_Witness ==
  \E k \in 1..Len(taskLog) :
    /\ taskLog[k].task > 1
    /\ taskLog[k].checkedAt = TIME_BUDGET - 1
    /\ taskLog[k].startedAt = TIME_BUDGET

(***************************************************************************)
(* The city suffix and the geographic filter (index.ts 128-135, 255-275)   *)
(***************************************************************************)
T_CommaStockholm == <<",", " ", "S", "t", "o", "c", "k", "h", "o", "l", "m">>

\* C39: a candidate whose venue is "<name>, Stockholm" is never dropped by
\* the geographic filter, whatever the name and the source are.
C39_CitySuffixNeverDropped ==
  Filtered /\ Truthy(qIn[1].event.venue)
           /\ EndsWith(qIn[1].event.venue, T_CommaStockholm)
    => Kept

(***************************************************************************)
(* The two text components of the natural key (index.ts 304-306)           *)
(***************************************************************************)
\* the text before the first character that is one of seps
BeforeFirst(s, seps) ==
  SubSeq(s, 1, Min({k \in 1..Len(s) : s[k] \in seps} \cup {Len(s) + 1}) - 1)

\* the characters of s that are in ok, in their order, lowercased first
LoweredAndKept(s, ok) ==
  SelectSeq([k \in 1..Len(s) |-> ToLowerChar(s[k])], LAMBDA c : c \in ok)

\* letters, accented or not, and digits
AlphaNumerics ==
  {LowerChars[k] : k \in 1..Len(LowerChars)} \cup Digits

\* the separators the statement lists
StatedSeparators == {":", "-", "endash", "emdash", "|"}

KeyComponentRan ==
  qOut # <<>> /\ qIn[1].fn \in {"normalizeArtist", "normalizeVenueKey"}

\* C31 as stated: the artist component and the venue component are both
\* the text before the first of ':', '-', en dash, em dash and '|',
\* lowercased, without its non-alphanumeric characters.
C31_BothTruncatedAtSameSeparators ==
  KeyComponentRan =>
    qOut[1] = LoweredAndKept(BeforeFirst(qIn[1].text, StatedSeparators), AlphaNumerics)

\* C31 as amended: the artist component is the text before the first of
\* ':', '-', en dash, em dash and '|', the venue component the text before
\* the first of ',', '-', en dash and em dash; both are then lowercased and
\* stripped of every character other than a-z, a-ring, a-umlaut, o-umlaut
\* and 0-9.  The tour title of "5 Seconds of Summer: ..." is cut off and
\* the artist component is "5secondsofsummer".
C31_KeyComponents ==
  KeyComponentRan =>
    /\ qIn[1].fn = "normalizeArtist" =>
         qOut[1] = LoweredAndKept(BeforeFirst(qIn[1].text, {":", "-", "endash", "emdash", "|"}),
                                  KeyChars)
    /\ qIn[1].fn = "normalizeVenueKey" =>
         qOut[1] = LoweredAndKept(BeforeFirst(qIn[1].text, {",", "-", "endash", "emdash"}),
                                  KeyChars)
    /\ qIn[1].fn = "normalizeArtist" /\ qIn[1].text = T_FiveSecondsTour
         => qOut[1] = T_5secondsofsummer

\* the artist component of the tour title was computed
C31_Witness ==
  /\ qOut # <<>>
  /\ qIn[1].fn = "normalizeArtist" /\ qIn[1].text = T_FiveSecondsTour
  /\ qOut[1] = T_5secondsofsummer

\* a venue with a colon keeps what follows it, one with a comma does not
C31_WitnessVenue ==
  /\ qOut # <<>>
  /\ qIn[1].fn = "normalizeVenueKey"
  /\ \/ qIn[1].text = <<"A", ":", "b">> /\ qOut[1] = <<"a", "b">>
     \/ qIn[1].text = <<"A", ",", "b">> /\ qOut[1] = <<"a">>

(***************************************************************************)
(* The deletion guard when its load fails (index.ts 389-398, 407-413)      *)
(***************************************************************************)
\* the query for deleted_concerts failed: the set the handler holds is not
\* the set of the table it read
LoadFailed ==
  /\ pc \notin {"idle", "loadDeleted"}
  /\ deletedKeys # DeletedKeySet(deletedAtLoad)

\* C32: when the query that loads the deletion set fails, the invocation
\* upserts no record whose natural key is that of an existing deletion
\* record.
C32_GuardFailsClosed ==
  LoadFailed =>
    \A k \in 1..Len(upsertLog) :
      upsertLog[k].key \notin DeletedKeySet(deleted_concerts)

(***************************************************************************)
(* SpecStored: scrape-concerts run twice against a table that may hold a   *)
(* row already, the backend answering each task with one of three          *)
(* spellings of the same event.                                            *)
(***************************************************************************)
\* the event of E_AbTicket without a ticket link
E_AbNoTicket == RawEvent(T_Ab, T_NalenStockholm, D_5, NULL, "null", NULL)

\* a row an earlier scrape wrote, completed by fetch-images and an admin edit
R_AbNalen ==
  Concert(T_Ab, T_Nalen, D_5, T_Url2, T_Img2, TRUE, T_concert, S_LiveNation)

StoredWorld ==
  [fixed |-> TRUE, body |-> {Body(FALSE, 17, "false", 0)}, hasKey |-> {TRUE},
   wait |-> {0}, queryOk |-> {TRUE}, links |-> {<<>>},
   resp |-> {Resp("ok", <<E_AbTicket>>), Resp("ok", <<E_AbNoTicket>>),
             Resp("ok", <<E_AbImage>>)},
   dur |-> {0}, env |-> SampleImageEnvs, upsertOk |-> {TRUE},
   trigger |-> {"queued"}]

InitStored ==
  /\ HandlerIdle
  /\ DedupIdle
  /\ RerunIdle /\ QualityIdle /\ ManageIdle
  /\ world = StoredWorld
  /\ concerts \in {{}, {StoredRow(R_AbNalen)}}
  /\ deleted_concerts = {}

NextStored ==
  \/ Receive
  \/ LoadDeleted
  \/ BudgetCheck
  \/ Delay
  \/ RunTask
  \/ StartUpsert
  \/ UpsertOne
  \/ FinishUpsert
  \/ ChainStep
  \/ Respond
  \/ Reenter

SpecStored == InitStored /\ [][NextStored]_vars

\* C34: after any sequence of scrape invocations the concerts table holds
\* at most one row per natural key (normalized artist, normalized venue,
\* day of the date).
C34_OneRowPerNaturalKey ==
  \A r1, r2 \in concerts : NaturalKey(r1) = NaturalKey(r2) => r1 = r2

\* C35: a scrape upsert never empties a populated image_url or ticket_url
\* of the row stored under its conflict key.
C35_UpsertKeepsPopulatedFields ==
  [][\A r \in concerts : \A r2 \in concerts' :
       ConflictKey(r2) = ConflictKey(r) =>
         /\ Truthy(r.image_url) => Truthy(r2.image_url)
         /\ Truthy(r.ticket_url) => Truthy(r2.ticket_url)]_vars

(***************************************************************************)
(* SpecRace: one manage-concerts request and one scrape-concerts           *)
(* invocation on the same tables, their steps interleaved in every order.  *)
(***************************************************************************)
\* the event the backend extracts: the one stored as M_Row1
E_Stored == RawEvent(T_Ab, T_NalenStockholm, D_5, T_Url1, "true", NULL)

RaceWorld ==
  [fixed |-> TRUE, body |-> {Body(FALSE, 17, "false", 0)}, hasKey |-> {TRUE},
   wait |-> {0}, queryOk |-> {TRUE}, links |-> {<<>>},
   resp |-> {Resp("ok", <<E_Stored>>)}, dur |-> {0},
   env |-> {ImageEnv("throws", "none", "none", "none")}, upsertOk |-> {TRUE},
   trigger |-> {"queued"}]

InitRace ==
  /\ HandlerIdle
  /\ DedupIdle
  /\ RerunIdle /\ QualityIdle /\ ManageIdle
  /\ world = RaceWorld
  /\ concerts = {M_Row1, M_Row2}
  /\ deleted_concerts = {}

NextRace ==
  \/ Receive
  \/ LoadDeleted
  \/ BudgetCheck
  \/ Delay
  \/ RunTask
  \/ StartUpsert
  \/ UpsertOne
  \/ FinishUpsert
  \/ ChainStep
  \/ Respond
  \/ MReceive
  \/ MSelect
  \/ MDelete
  \/ MRecord
  \/ MDeleted
  \/ MUpdate
  \/ MInsert
  \/ MScrapeUrl
  \/ MInvalid

SpecRace == InitRace /\ [][NextRace]_vars

\* the delete removed rows and every one of them has its deletion record
DeleteRecorded ==
  /\ mpc = "done" /\ mreq.action = "delete" /\ removed # {}
  /\ \A r \in removed :
       DeletionRecord(r.artist, r.venue, r.date) \in deleted_concerts

\* C33: whatever the interleaving of a delete with a running scrape, once
\* the delete has removed the concert and recorded it and the scrape has
\* finished, no row with the natural key of the deleted concert is in
\* concerts.
C33_DeletedStaysAbsent ==
  DeleteRecorded /\ pc = "done" =>
    \A r \in removed : \A c \in concerts : NaturalKey(c) # NaturalKey(r)
====
